---- MODULE Spec2Model ----
(***************************************************************************)
(* A model of rmrf's highlight extraction (src/src/rmrf/parse.py), of the  *)
(* document node it reads and the file system it belongs to                *)
(* (src/src/rmrf/base/fs.py), and of the export of the notes               *)
(* (src/src/rmrf/export/markdown.py).                                      *)
(*                                                                         *)
(* Python floats are modelled as exact rationals <<n, d>> with d > 0 in    *)
(* lowest terms, Python's None as a record with a flag, float("inf") as a  *)
(* record with a flag.                                                     *)
(***************************************************************************)
EXTENDS Integers, Sequences, FiniteSets, TLC

VARIABLES
    tin,        \* get_transformation: its arguments (blocks, node geometry, raster)
    tr,         \* get_transformation: its local variables and its position
    node,       \* the File being extracted: its .rm files, page map, tags, raster
    enable_cropping, \* the argument of extract_highlights
    rm_blocks,  \* File.rm_blocks as read_page_map builds it
    pc,         \* position in read_page_map / extract_highlights / ..._from_blocks
    k,          \* index of the next rm file (reading) or of the next page (extracting)
    order,      \* the sorted page keys extract_highlights iterates over
    highlights, \* the aggregate list of extract_highlights
    loc,        \* the locals of the running extract_highlights_from_blocks call
    exc,        \* the exception that left extract_highlights, "" while none
    files,      \* the temporary files created in cache_dir, in creation order
    visited,    \* history: what happened on each page visited so far
    wr,         \* MarkdownWriter.update: the note, the static directory, its result
    fn,         \* a call of one of the helper functions: its name, arguments, result
    fsys,       \* FileSystem: the metadata read, nodes, the children lists, its position
    un          \* update_notes: the prefix, the pending calls, the calls of writer.update

vars == <<tin, tr, node, enable_cropping, rm_blocks, pc, k, order, highlights, loc, exc, files,
          visited, wr, fn, fsys, un>>

(***************************************************************************)
(* Bounds of the model.                                                    *)
(***************************************************************************)
MaxBlocks == 2      \* blocks per page in the extraction specifications
MaxFiles == 2       \* .rm files of a document
MaxTBlocks == 2     \* blocks per page in the transform specification
MaxIter == 3        \* iterations of a widening loop that the model follows
MaxBytes == 5       \* bytes of raw metadata (extra_data) of a block
MaxPoints == 4      \* points of a stroke handed to is_rectangular

(***************************************************************************)
(* Exact rational arithmetic for Python's float expressions.               *)
(***************************************************************************)
Abs(i) == IF i < 0 THEN -i ELSE i

RECURSIVE GCD(_, _)
GCD(a, b) == IF b = 0 THEN a ELSE GCD(b, a % b)

Rat(n, d) ==
    LET s == IF d < 0 THEN -1 ELSE 1
        g == GCD(Abs(n), Abs(d))
    IN  <<(s * n) \div g, (s * d) \div g>>

I2R(i) == <<i, 1>>
RAdd(p, q) == Rat(p[1] * q[2] + q[1] * p[2], p[2] * q[2])
RSub(p, q) == Rat(p[1] * q[2] - q[1] * p[2], p[2] * q[2])
RMul(p, q) == Rat(p[1] * q[1], p[2] * q[2])
RDiv(p, q) == Rat(p[1] * q[2], p[2] * q[1])
RLe(p, q) == p[1] * q[2] <= q[1] * p[2]
RLt(p, q) == p[1] * q[2] < q[1] * p[2]
RMax(p, q) == IF RLt(p, q) THEN q ELSE p
RMin(p, q) == IF RLt(q, p) THEN q ELSE p
RAbs(p) == <<Abs(p[1]), p[2]>>
RZero == I2R(0)

\* math.ceil: the least integer >= p, as a rational
Floor(p) == IF p[1] >= 0 THEN p[1] \div p[2] ELSE -((-p[1] + p[2] - 1) \div p[2])
Ceil(p) == I2R(-Floor(<<-p[1], p[2]>>))

\* round(p, 2) cutting the third decimal off instead of rounding
Round2_Truncate(p) == Rat(Floor(RMul(p, I2R(100))), 100)

\* round(p, 2): the nearest multiple of 1/100, a tie going to the even one
Round2(p) ==
    LET q == RMul(p, I2R(100))
        f == Floor(q)
        r == RSub(q, I2R(f))
        up == \/ RLt(Rat(1, 2), r)
              \/ (r = Rat(1, 2) /\ f % 2 = 1)
    IN  Rat(IF up THEN f + 1 ELSE f, 100)

RECURSIVE RMaxSeq(_)
RMaxSeq(s) == IF Len(s) = 1 THEN s[1] ELSE RMax(s[1], RMaxSeq(Tail(s)))

RECURSIVE RMinSeq(_)
RMinSeq(s) == IF Len(s) = 1 THEN s[1] ELSE RMin(s[1], RMinSeq(Tail(s)))

(***************************************************************************)
(* Python values.                                                          *)
(***************************************************************************)
PyNone == [none |-> TRUE, i |-> 0]
PyInt(i) == [none |-> FALSE, i |-> i]
Inf == [inf |-> TRUE, i |-> 0]
Idx(i) == [inf |-> FALSE, i |-> i]

\* sort order of block indices: every integer is below float("inf")
IdxLe(a, b) == b.inf \/ (~a.inf /\ a.i <= b.i)

(***************************************************************************)
(* Blocks: rmscene's SceneLineItemBlock ("Line"), SceneGlyphItemBlock      *)
(* ("Glyph"), RootTextBlock ("Text"), UnreadableBlock ("Unreadable") and   *)
(* any other block type ("Other").  has_value is "item.value is not None"  *)
(* ("value is not None" for a Text).                                       *)
(***************************************************************************)
Pt(x, y) == [x |-> x, y |-> y]

Block(kind, has_value, points, text, deleted_length, extra_data, color, pos) ==
    [kind |-> kind, has_value |-> has_value, points |-> points, text |-> text,
     deleted_length |-> deleted_length, extra_data |-> extra_data,
     color |-> color, pos |-> pos]

(***************************************************************************)
(* get_color and the palette.                                              *)
(***************************************************************************)
PenColors == {"BLACK", "GRAY", "WHITE", "YELLOW", "GREEN", "PINK", "BLUE", "RED",
              "GRAY_OVERLAP", "HIGHLIGHT", "GREEN_2", "CYAN", "MAGENTA", "YELLOW_2"}

remarkable_palette ==
    [c \in PenColors \ {"HIGHLIGHT"} |->
        CASE c = "BLACK" -> <<0, 0, 0>>
          [] c = "GRAY" -> <<144, 144, 144>>
          [] c = "WHITE" -> <<255, 255, 255>>
          [] c = "YELLOW" -> <<251, 247, 25>>
          [] c = "GREEN" -> <<0, 255, 0>>
          [] c = "PINK" -> <<255, 192, 203>>
          [] c = "BLUE" -> <<78, 105, 201>>
          [] c = "RED" -> <<179, 62, 57>>
          [] c = "GRAY_OVERLAP" -> <<125, 125, 125>>
          [] c = "GREEN_2" -> <<161, 216, 125>>
          [] c = "CYAN" -> <<139, 208, 229>>
          [] c = "MAGENTA" -> <<183, 130, 205>>
          [] c = "YELLOW_2" -> <<247, 232, 81>>]

\* get_color taking the raw color from 4 bytes on
get_color_FromFourBytes(block) ==
    LET e == block.extra_data
        n == Len(e)
    IN  IF n >= 4
        THEN [ok |-> TRUE, rgba |-> <<e[n - 1], e[n - 2], e[n - 3], e[n]>>]
        ELSE IF block.color \in DOMAIN remarkable_palette
             THEN LET p == remarkable_palette[block.color]
                  IN  [ok |-> TRUE,
                       rgba |-> <<p[1], p[2], p[3], IF Len(p) > 3 THEN p[4] ELSE 255>>]
             ELSE [ok |-> FALSE, rgba |-> <<>>]

\* get_color falling back to black for a color that is not in the palette
get_color_DefaultBlack(block) ==
    LET e == block.extra_data
        n == Len(e)
    IN  IF n >= 5
        THEN [ok |-> TRUE, rgba |-> <<e[n - 1], e[n - 2], e[n - 3], e[n]>>]
        ELSE IF block.color \in DOMAIN remarkable_palette
             THEN LET p == remarkable_palette[block.color]
                  IN  [ok |-> TRUE,
                       rgba |-> <<p[1], p[2], p[3], IF Len(p) > 3 THEN p[4] ELSE 255>>]
             ELSE [ok |-> TRUE, rgba |-> <<0, 0, 0, 255>>]

\* get_color reading the raw bytes in the order r, g, b, a
get_color_RawAsRGBA(block) ==
    LET e == block.extra_data
        n == Len(e)
    IN  IF n >= 5
        THEN [ok |-> TRUE, rgba |-> <<e[n - 3], e[n - 2], e[n - 1], e[n]>>]
        ELSE IF block.color \in DOMAIN remarkable_palette
             THEN LET p == remarkable_palette[block.color]
                  IN  [ok |-> TRUE,
                       rgba |-> <<p[1], p[2], p[3], IF Len(p) > 3 THEN p[4] ELSE 255>>]
             ELSE [ok |-> FALSE, rgba |-> <<>>]

\* The result of get_color: ok with the (r, g, b, a) tuple, or the KeyError of
\* the palette lookup.
get_color(block) ==
    LET e == block.extra_data
        n == Len(e)
    IN  IF n >= 5
        THEN [ok |-> TRUE, rgba |-> <<e[n - 1], e[n - 2], e[n - 3], e[n]>>]
        ELSE IF block.color \in DOMAIN remarkable_palette
             THEN LET p == remarkable_palette[block.color]
                  IN  [ok |-> TRUE,
                       rgba |-> <<p[1], p[2], p[3], IF Len(p) > 3 THEN p[4] ELSE 255>>]
             ELSE [ok |-> FALSE, rgba |-> <<>>]

(***************************************************************************)
(* get_limits and is_rectangular.                                          *)
(***************************************************************************)
RECURSIVE CoordValues(_, _)
CoordValues(blocks, axis) ==
    IF blocks = <<>> THEN <<>>
    ELSE LET b == Head(blocks)
             here == IF b.kind = "Line" /\ b.has_value /\ b.points # <<>>
                     THEN [i \in 1..Len(b.points) |->
                             IF axis = "x" THEN b.points[i].x ELSE b.points[i].y]
                     ELSE IF b.kind = "Text" /\ b.has_value
                          THEN <<IF axis = "x" THEN b.pos.x ELSE b.pos.y>>
                          ELSE <<>>
         IN  here \o CoordValues(Tail(blocks), axis)

NoLimits == [none |-> TRUE, x_min |-> RZero, y_min |-> RZero,
             x_max |-> RZero, y_max |-> RZero]

get_limits(blocks) ==
    LET x_values == CoordValues(blocks, "x")
        y_values == CoordValues(blocks, "y")
    IN  IF x_values = <<>> \/ y_values = <<>>
        THEN NoLimits
        ELSE [none |-> FALSE,
              x_min |-> RMinSeq(x_values), y_min |-> RMinSeq(y_values),
              x_max |-> RMaxSeq(x_values), y_max |-> RMaxSeq(y_values)]

\* shapely's Polygon(points).area: the absolute value of the ring's signed
\* (shoelace) area, the ring closed from its last point to its first.
RECURSIVE ShoelaceSum(_, _)
ShoelaceSum(pts, i) ==
    IF i > Len(pts) THEN RZero
    ELSE LET p == pts[i]
             q == pts[IF i = Len(pts) THEN 1 ELSE i + 1]
         IN  RAdd(RSub(RMul(p.x, q.y), RMul(q.x, p.y)), ShoelaceSum(pts, i + 1))

PolygonArea(pts) == RDiv(RAbs(ShoelaceSum(pts, 1)), I2R(2))

DefaultThreshold == Rat(4, 5)

\* is_rectangular content with 3 points
is_rectangular_FromThreePoints(block, threshold) ==
    IF Len(block.points) < 3 THEN FALSE
    ELSE LET lim == get_limits(<<block>>)
             rectangle == RMul(RSub(lim.x_max, lim.x_min), RSub(lim.y_max, lim.y_min))
         IN  IF RLe(rectangle, RZero) THEN FALSE
             ELSE RLe(threshold, RDiv(PolygonArea(block.points), rectangle))

is_rectangular(block, threshold) ==
    IF Len(block.points) < 4 THEN FALSE
    ELSE LET lim == get_limits(<<block>>)
             rectangle == RMul(RSub(lim.x_max, lim.x_min), RSub(lim.y_max, lim.y_min))
         IN  IF RLe(rectangle, RZero) THEN FALSE
             ELSE RLe(threshold, RDiv(PolygonArea(block.points), rectangle))

(***************************************************************************)
(* File.is_highlight_block and File.is_handwriting_block.                  *)
(***************************************************************************)
is_highlight_block(block) == block.has_value /\ block.text # ""

is_handwriting_block(block) == block.has_value /\ block.points # <<>>

(***************************************************************************)
(* get_transformation.  Its locals are the record t; pc is its position:   *)
(* "hloop" (line 158), "vloop" (line 198), "done" (returned),              *)
(* "TransformationError" or "AssertionError" (raised).                     *)
(***************************************************************************)
NoImage == [present |-> FALSE, width |-> 0, height |-> 0]
Image(w, h) == [present |-> TRUE, width |-> w, height |-> h]

\* lines 129-156: the limits, the raster, the nominal canvas, the first deltas
TEnter(in) ==
    LET lim == get_limits(in.blocks)
        screen_width == in.zoom_width
        screen_height == in.zoom_height
    IN  [pc |-> IF lim.none THEN "TransformationError" ELSE "hloop",
         x_min |-> lim.x_min, y_min |-> lim.y_min,
         x_max |-> lim.x_max, y_max |-> lim.y_max,
         screen_width |-> screen_width, screen_height |-> screen_height,
         x_delta |-> RDiv(screen_width, I2R(2)),
         y_delta |-> IF RLt(lim.y_min, RZero) THEN RAbs(lim.y_min) ELSE RZero,
         x_scale |-> I2R(1), y_scale |-> I2R(1),
         hiter |-> 0, viter |-> 0]

\* HCond without its third disjunct, "x_max + x_delta > screen_width"
HCond_NoRightEdge(t) ==
    \/ RLt(t.screen_width, RSub(t.x_max, t.x_min))
    \/ RLt(RAdd(t.x_min, t.x_delta), RZero)
    \/ RLt(t.screen_width, t.x_max)
    \/ RLt(t.screen_width, RMul(t.x_delta, I2R(2)))

\* lines 158-164: the condition of the horizontal loop
HCond(t) ==
    \/ RLt(t.screen_width, RSub(t.x_max, t.x_min))
    \/ RLt(RAdd(t.x_min, t.x_delta), RZero)
    \/ RLt(t.screen_width, RAdd(t.x_max, t.x_delta))
    \/ RLt(t.screen_width, t.x_max)
    \/ RLt(t.screen_width, RMul(t.x_delta, I2R(2)))

\* WidthCandidates without the fourth candidate, ceil(x_max + x_delta)
WidthCandidates_NoRightEdge(t, x_delta_) ==
    <<Ceil(RSub(t.x_max, t.x_min)),
      t.screen_width,
      Ceil(RMul(x_delta_, I2R(2)))>>

\* WidthCandidates with the third candidate taken as 4 * x_delta
WidthCandidates_Quadruple(t, x_delta_) ==
    <<Ceil(RSub(t.x_max, t.x_min)),
      t.screen_width,
      Ceil(RMul(x_delta_, I2R(4))),
      Ceil(RAdd(t.x_max, x_delta_))>>

\* lines 176-181: the candidates of the new canvas width
WidthCandidates(t, x_delta_) ==
    <<Ceil(RSub(t.x_max, t.x_min)),
      t.screen_width,
      Ceil(RMul(x_delta_, I2R(2))),
      Ceil(RAdd(t.x_max, x_delta_))>>

\* HBody without the proportional scaling of the canvas height
HBody_KeepsHeight(t) ==
    LET c1 == IF RLt(t.x_min, RZero) THEN RAbs(t.x_min) ELSE RZero
        c2 == t.x_delta
        c3 == RDiv(t.screen_width, I2R(2))
        x_delta_ == RMaxSeq(<<c1, c2, c3>>)
    IN  [t EXCEPT !.x_delta = x_delta_,
                  !.screen_width = RMaxSeq(WidthCandidates(t, x_delta_)),
                  !.hiter = @ + 1]

\* lines 165-188: the body of the horizontal loop
HBody(t) ==
    LET c1 == IF RLt(t.x_min, RZero) THEN RAbs(t.x_min) ELSE RZero
        c2 == t.x_delta
        c3 == RDiv(t.screen_width, I2R(2))
        x_delta_ == RMaxSeq(<<c1, c2, c3>>)
        screen_width_ == RMaxSeq(WidthCandidates(t, x_delta_))
        screen_height_ ==
            IF screen_width_ # t.screen_width
            THEN RDiv(RMul(t.screen_height, screen_width_), t.screen_width)
            ELSE t.screen_height
    IN  [t EXCEPT !.x_delta = x_delta_,
                  !.screen_width = screen_width_,
                  !.screen_height = screen_height_,
                  !.hiter = @ + 1]

\* lines 190-196: the assertions after the horizontal loop
HAsserts(t) ==
    /\ RLe(RAdd(t.x_max, t.x_delta), t.screen_width)
    /\ RLe(RZero, RAdd(t.x_min, t.x_delta))
    /\ RLe(RSub(t.x_max, t.x_min), t.screen_width)

HExit(t) == [t EXCEPT !.pc = IF HAsserts(t) THEN "vloop" ELSE "AssertionError"]

\* lines 198-203: the condition of the vertical loop
VCond(t) ==
    \/ RLt(t.screen_height, RSub(t.y_max, t.y_min))
    \/ RLt(RAdd(t.y_min, t.y_delta), RZero)
    \/ RLt(t.screen_height, RAdd(t.y_max, t.y_delta))
    \/ RLt(t.screen_height, t.y_max)

\* VBody without the candidate ceil(y_max + y_delta) of the new height
VBody_NoBottomEdge(t, center_y) ==
    LET c1 == IF RLt(t.y_min, RZero) THEN RAbs(t.y_min) ELSE RZero
        c2 == RSub(center_y, RDiv(t.screen_height, I2R(2)))
        c3 == t.y_delta
        y_delta_ == RMaxSeq(<<c1, c2, c3>>)
        screen_height_ == RMaxSeq(<<Ceil(RSub(t.y_max, t.y_min)),
                                    t.screen_height,
                                    Ceil(t.y_max)>>)
        screen_width_ ==
            IF screen_height_ # t.screen_height
            THEN RMax(RDiv(RMul(t.screen_width, screen_height_), t.screen_height),
                      t.screen_width)
            ELSE t.screen_width
    IN  [t EXCEPT !.y_delta = y_delta_,
                  !.screen_height = screen_height_,
                  !.screen_width = screen_width_,
                  !.viter = @ + 1]

\* lines 204-230: the body of the vertical loop
VBody(t, center_y) ==
    LET c1 == IF RLt(t.y_min, RZero) THEN RAbs(t.y_min) ELSE RZero
        c2 == RSub(center_y, RDiv(t.screen_height, I2R(2)))
        c3 == t.y_delta
        y_delta_ == RMaxSeq(<<c1, c2, c3>>)
        screen_height_ == RMaxSeq(<<Ceil(RSub(t.y_max, t.y_min)),
                                    t.screen_height,
                                    Ceil(RAdd(t.y_max, y_delta_)),
                                    Ceil(t.y_max)>>)
        screen_width_ ==
            IF screen_height_ # t.screen_height
            THEN RMax(RDiv(RMul(t.screen_width, screen_height_), t.screen_height),
                      t.screen_width)
            ELSE t.screen_width
    IN  [t EXCEPT !.y_delta = y_delta_,
                  !.screen_height = screen_height_,
                  !.screen_width = screen_width_,
                  !.viter = @ + 1]

\* lines 237-243: the assertions after the canvas is rounded up
VAsserts(t) ==
    /\ RLe(RAdd(t.y_max, t.y_delta), t.screen_height)
    /\ RLe(RZero, RAdd(t.y_min, t.y_delta))
    /\ RLe(RSub(t.y_max, t.y_min), t.screen_height)

\* lines 232-255: round the canvas up, assert, scale to the raster, return
TFinish(t, image) ==
    LET w == Ceil(t.screen_width)
        h == Ceil(t.screen_height)
        u == [t EXCEPT !.screen_width = w, !.screen_height = h]
    IN  IF ~VAsserts(u) THEN [u EXCEPT !.pc = "AssertionError"]
        ELSE IF image.present
        THEN LET scale == Round2(RMin(RDiv(I2R(image.width), w),
                                      RDiv(I2R(image.height), h)))
             IN  [u EXCEPT !.pc = "done",
                           !.x_scale = scale, !.y_scale = scale,
                           !.screen_width = Ceil(RMax(RMul(w, scale), I2R(image.width))),
                           !.screen_height = Ceil(RMax(RMul(h, scale), I2R(image.height)))]
        ELSE [u EXCEPT !.pc = "done", !.x_scale = I2R(1), !.y_scale = I2R(1)]

RECURSIVE HLoop(_)
HLoop(t) == IF HCond(t) THEN HLoop(HBody(t)) ELSE HExit(t)

RECURSIVE VLoop(_, _)
VLoop(t, in) == IF VCond(t) THEN VLoop(VBody(t, in.center_y), in) ELSE TFinish(t, in.image)

\* the whole call: the record it returns with (pc = "done") or raises with
get_transformation(in) ==
    LET t0 == TEnter(in)
        t1 == IF t0.pc = "hloop" THEN HLoop(t0) ELSE t0
    IN  IF t1.pc = "vloop" THEN VLoop(t1, in) ELSE t1

(***************************************************************************)
(* The transform specification SpecT: one call of get_transformation, step *)
(* by step, on a page drawn from TPages.                                   *)
(***************************************************************************)
NoPos == Pt(RZero, RZero)

Stroke(points, color, deleted_length) ==
    Block("Line", TRUE, points, "", deleted_length, <<>>, color, NoPos)

Glyph(text, color, extra_data, deleted_length) ==
    Block("Glyph", TRUE, <<>>, text, deleted_length, extra_data, color, NoPos)

TextParagraph(has_value, pos) ==
    Block("Text", has_value, <<>>, "", 0, <<>>, "BLACK", pos)

TXs == {I2R(-5), Rat(-3, 2), Rat(5, 2), I2R(9)}
TYs == {I2R(-4), Rat(1, 2), I2R(11)}

TPool ==
    {Stroke(<<Pt(x, y)>>, "BLACK", 0) : x \in TXs, y \in TYs}
    \cup {TextParagraph(TRUE, Pt(x, y)) : x \in {Rat(-3, 2), I2R(9)}, y \in {Rat(1, 2)}}
    \cup {TextParagraph(TRUE, Pt(I2R(1), I2R(-4))),
          TextParagraph(FALSE, NoPos),
          Glyph("Important", "YELLOW", <<>>, 0),
          Stroke(<<Pt(I2R(9), I2R(11))>>, "BLACK", 1),
          Stroke(<<Pt(Rat(-3, 2), Rat(1, 2)), Pt(Rat(5, 2), Rat(1, 2)),
                   Pt(Rat(5, 2), I2R(11)), Pt(Rat(-3, 2), I2R(11))>>, "BLACK", 0),
          Block("Line", FALSE, <<>>, "", 0, <<>>, "BLACK", NoPos)}

SeqsUpTo(S, n) == UNION {[1..m -> S] : m \in 0..n}

TPages == SeqsUpTo(TPool, MaxTBlocks)

TInputs ==
    [blocks : TPages,
     zoom_width : {I2R(4), Rat(9, 2)},
     zoom_height : {I2R(6)},
     center_y : {RZero, I2R(8)},
     image : {NoImage, Image(8, 12), Image(3, 20), Image(15, 20)}]

\* no call of MarkdownWriter.update and of a helper function
NoWriter == [pc |-> "idle"]
NoFileSystem == [pc |-> "idle"]
NoUpdate == [pc |-> "idle"]
NoFn == [name |-> ""]

TIdle == [pc |-> "start",
          x_min |-> RZero, y_min |-> RZero, x_max |-> RZero, y_max |-> RZero,
          screen_width |-> RZero, screen_height |-> RZero,
          x_delta |-> RZero, y_delta |-> RZero,
          x_scale |-> I2R(1), y_scale |-> I2R(1), hiter |-> 0, viter |-> 0]

TInIdle == [blocks |-> <<>>, zoom_width |-> I2R(4), zoom_height |-> I2R(6),
            center_y |-> RZero, image |-> NoImage]

ExtractionIdle ==
    /\ node = <<>>
    /\ enable_cropping = TRUE
    /\ rm_blocks = <<>>
    /\ pc = "idle"
    /\ k = 0
    /\ order = <<>>
    /\ highlights = <<>>
    /\ loc = <<>>
    /\ exc = ""
    /\ files = <<>>
    /\ visited = <<>>

extractionVars == <<node, enable_cropping, rm_blocks, pc, k, order, highlights, loc, exc, files, visited>>

InitT ==
    /\ tin \in TInputs
    /\ tr = TIdle
    /\ ExtractionIdle
    /\ wr = NoWriter
    /\ fn = NoFn
    /\ fsys = NoFileSystem
    /\ un = NoUpdate

TStart ==
    /\ tr.pc = "start"
    /\ tr' = TEnter(tin)
    /\ UNCHANGED <<tin, extractionVars, wr, fn, fsys, un>>

THIter ==
    /\ tr.pc = "hloop"
    /\ HCond(tr)
    /\ tr.hiter < MaxIter
    /\ tr' = HBody(tr)
    /\ UNCHANGED <<tin, extractionVars, wr, fn, fsys, un>>

THExit ==
    /\ tr.pc = "hloop"
    /\ ~HCond(tr)
    /\ tr' = HExit(tr)
    /\ UNCHANGED <<tin, extractionVars, wr, fn, fsys, un>>

TVIter ==
    /\ tr.pc = "vloop"
    /\ VCond(tr)
    /\ tr.viter < MaxIter
    /\ tr' = VBody(tr, tin.center_y)
    /\ UNCHANGED <<tin, extractionVars, wr, fn, fsys, un>>

TVExit ==
    /\ tr.pc = "vloop"
    /\ ~VCond(tr)
    /\ tr' = TFinish(tr, tin.image)
    /\ UNCHANGED <<tin, extractionVars, wr, fn, fsys, un>>

NextT == TStart \/ THIter \/ THExit \/ TVIter \/ TVExit

SpecT == InitT /\ [][NextT]_vars

(***************************************************************************)
(* Properties of get_transformation.                                       *)
(***************************************************************************)
\* every stroke point and every text anchor of a page
RECURSIVE PagePoints(_)
PagePoints(blocks) ==
    IF blocks = <<>> THEN {}
    ELSE LET b == Head(blocks)
         IN  (IF b.kind \in {"Line", "Glyph"} /\ b.has_value
              THEN {b.points[i] : i \in 1..Len(b.points)}
              ELSE IF b.kind = "Text" /\ b.has_value THEN {b.pos} ELSE {})
             \cup PagePoints(Tail(blocks))

InCanvas(t, p) ==
    LET x == RMul(RAdd(p.x, t.x_delta), t.x_scale)
        y == RMul(RAdd(p.y, t.y_delta), t.y_scale)
    IN  /\ RLe(RZero, x) /\ RLe(x, t.screen_width)
        /\ RLe(RZero, y) /\ RLe(y, t.screen_height)

\* C1: whenever a page has a coordinate-bearing block, get_transformation
\* passes its assertions, and the transform it returns places every stroke
\* point and text anchor of the page inside [0, canvas_width] x
\* [0, canvas_height], with and without a reference raster.
C1_PointsInCanvas ==
    /\ tr.pc # "AssertionError"
    /\ tr.pc = "done" => \A p \in PagePoints(tin.blocks) : InCanvas(tr, p)

C1_Witness ==
    /\ tr.pc = "done"
    /\ tin.image.present
    /\ tr.hiter > 0
    /\ tr.viter > 0
    /\ Cardinality(PagePoints(tin.blocks)) > 1
    /\ tr.x_scale # I2R(1)

\* a page whose only content is free-form strokes: live Line blocks with points
StrokesOnly(blocks) ==
    /\ blocks # <<>>
    /\ \A i \in 1..Len(blocks) :
        /\ blocks[i].kind = "Line"
        /\ blocks[i].has_value
        /\ blocks[i].points # <<>>
        /\ blocks[i].deleted_length = 0
        /\ ~is_rectangular(blocks[i], DefaultThreshold)

C2_Case ==
    /\ tr.pc = "done"
    /\ ~tin.image.present
    /\ StrokesOnly(tin.blocks)
    /\ RLt(tin.zoom_width, RSub(tr.x_max, tr.x_min))

\* C2 as stated: for a page without reference raster whose only content is
\* free-form strokes wider than the nominal canvas, the returned canvas_width
\* equals ceil(x_max - x_min).
C2_WidthIsContentWidth ==
    C2_Case => tr.screen_width = Ceil(RSub(tr.x_max, tr.x_min))

\* C2 as amended: for such a page the returned x_delta is
\* max(-x_min, nominal_width / 2) and the returned canvas_width is an integer
\* at least W = max(x_max - x_min, 2 * x_delta, x_max + x_delta), so at least
\* ceil(x_max - x_min); when the vertical loop does not run it is the least
\* such integer, which is ceil(x_max - x_min) when
\* x_min <= -nominal_width / 2 and x_max >= -x_min and, for a content width
\* that is an integer, only then.
C2_WidthIsMaxOfCandidates ==
    C2_Case =>
        LET content == RSub(tr.x_max, tr.x_min)
            half == RDiv(tin.zoom_width, I2R(2))
            W == RMaxSeq(<<content, RMul(tr.x_delta, I2R(2)), RAdd(tr.x_max, tr.x_delta)>>)
            least == tr.viter = 0 => RLt(RSub(tr.screen_width, I2R(1)), W)
        IN  /\ tr.x_delta = RMax(RSub(RZero, tr.x_min), half)
            /\ tr.screen_width[2] = 1
            /\ RLe(W, tr.screen_width)
            /\ RLe(content, tr.screen_width)
            /\ least
            /\ (tr.viter = 0 /\ RLe(tr.x_min, RSub(RZero, half))
                    /\ RLe(RSub(RZero, tr.x_min), tr.x_max))
                   => tr.screen_width = Ceil(content)
            /\ (tr.viter = 0 /\ tr.screen_width = Ceil(content) /\ content[2] = 1)
                   => /\ RLe(tr.x_min, RSub(RZero, half))
                      /\ RLe(RSub(RZero, tr.x_min), tr.x_max)

C2_Witness ==
    /\ C2_Case
    /\ tr.viter = 0
    /\ Len(tin.blocks) = 2
    /\ tr.screen_width # Ceil(RSub(tr.x_max, tr.x_min))

(***************************************************************************)
(* Highlights (base/fs.py).  DrawingHighlight is the class ImageHighlight; *)
(* image_path is the position of the temporary file in files.              *)
(***************************************************************************)
TextHighlight(page_index, block_index, tags, text, color) ==
    [cls |-> "TextHighlight", page_index |-> page_index, block_index |-> block_index,
     tags |-> tags, text |-> text, color |-> color, image_path |-> 0]

ImageHighlight(page_index, block_index, tags, image_path) ==
    [cls |-> "ImageHighlight", page_index |-> page_index, block_index |-> block_index,
     tags |-> tags, text |-> "", color |-> <<>>, image_path |-> image_path]

DrawingHighlight(page_index, block_index, tags, image_path) ==
    ImageHighlight(page_index, block_index, tags, image_path)

\* "page_index or -1"
OrMinusOne(page_index) ==
    IF page_index.none \/ page_index.i = 0 THEN PyInt(-1) ELSE page_index

\* "page_tags or set()"
OrEmptySet(page_tags) == page_tags

(***************************************************************************)
(* extract_highlights_from_blocks, lines 433-474: the classification loop. *)
(* acc holds highlights, svg_blocks, cropping_blocks and the exception     *)
(* that ended the loop ("" while none).  An entry of svg_blocks is the     *)
(* block's index with its color, an entry of cropping_blocks the index.    *)
(***************************************************************************)
AllowedElements == {"Line", "Glyph", "Text"}

\* the classification without the test of enable_cropping at line 471
ClassifyOne_AlwaysCrop(acc, block, block_idx, page_index, page_tags, cropping) ==
    IF block.kind \notin AllowedElements THEN acc
    ELSE IF block.kind = "Text"
    THEN [acc EXCEPT !.svg_blocks =
            Append(@, [block_idx |-> block_idx, color |-> <<0, 0, 0, 255>>])]
    ELSE IF block.kind = "Line" /\ ~block.has_value THEN acc
    ELSE IF block.deleted_length > 0 THEN acc
    ELSE IF is_highlight_block(block)
    THEN LET c == get_color(block)
         IN  IF ~c.ok THEN [acc EXCEPT !.exc = "KeyError"]
             ELSE [acc EXCEPT !.highlights =
                     Append(@, TextHighlight(OrMinusOne(page_index), Idx(block_idx),
                                             OrEmptySet(page_tags), block.text, c.rgba))]
    ELSE IF ~is_handwriting_block(block) THEN acc
    ELSE IF is_rectangular(block, DefaultThreshold)
    THEN [acc EXCEPT !.cropping_blocks = Append(@, block_idx)]
    ELSE LET c == get_color(block)
         IN  IF ~c.ok THEN [acc EXCEPT !.exc = "KeyError"]
             ELSE [acc EXCEPT !.svg_blocks =
                     Append(@, [block_idx |-> block_idx, color |-> c.rgba])]

ClassifyOne(acc, block, block_idx, page_index, page_tags, cropping) ==
    IF block.kind \notin AllowedElements THEN acc
    ELSE IF block.kind = "Text"
    THEN [acc EXCEPT !.svg_blocks =
            Append(@, [block_idx |-> block_idx, color |-> <<0, 0, 0, 255>>])]
    ELSE IF block.kind = "Line" /\ ~block.has_value THEN acc
    ELSE IF block.deleted_length > 0 THEN acc
    ELSE IF is_highlight_block(block)
    THEN LET c == get_color(block)
         IN  IF ~c.ok THEN [acc EXCEPT !.exc = "KeyError"]
             ELSE [acc EXCEPT !.highlights =
                     Append(@, TextHighlight(OrMinusOne(page_index), Idx(block_idx),
                                             OrEmptySet(page_tags), block.text, c.rgba))]
    ELSE IF ~is_handwriting_block(block) THEN acc
    ELSE IF is_rectangular(block, DefaultThreshold) /\ cropping
    THEN [acc EXCEPT !.cropping_blocks = Append(@, block_idx)]
    ELSE LET c == get_color(block)
         IN  IF ~c.ok THEN [acc EXCEPT !.exc = "KeyError"]
             ELSE [acc EXCEPT !.svg_blocks =
                     Append(@, [block_idx |-> block_idx, color |-> c.rgba])]

RECURSIVE ClassifyFrom(_, _, _, _, _, _)
ClassifyFrom(acc, blocks, i, page_index, page_tags, cropping) ==
    IF i > Len(blocks) \/ acc.exc # "" THEN acc
    ELSE ClassifyFrom(ClassifyOne(acc, blocks[i], i - 1, page_index, page_tags, cropping),
                      blocks, i + 1, page_index, page_tags, cropping)

(***************************************************************************)
(* lines 476-488: the transform of the page, a TransformationError caught. *)
(* bound tells whether x_delta, ..., base_image were assigned.             *)
(***************************************************************************)
TransformInput(l) ==
    [blocks |-> l.blocks,
     zoom_width |-> node.zoom_width, zoom_height |-> node.zoom_height,
     center_y |-> node.center_y,
     image |-> IF l.has_doc /\ ~l.page_index.none THEN node.image ELSE NoImage]

TransformPage(l) ==
    LET in == TransformInput(l)
        t == get_transformation(in)
    IN  IF t.pc = "done"
        THEN [l EXCEPT !.bound = TRUE, !.t = t, !.base_image = in.image,
                       !.transform = "ok"]
        ELSE IF t.pc = "TransformationError"
        THEN [l EXCEPT !.transform = "TransformationError"]
        ELSE [l EXCEPT !.transform = t.pc, !.exc = t.pc]

(***************************************************************************)
(* lines 490-520: crop the candidates out of the raster, or hand them to   *)
(* the vector candidates when the page has no raster.  fs is the list of   *)
(* temporary files; the result is the locals and the files.                *)
(***************************************************************************)
CropBox(l, block) ==
    LET lim == get_limits(<<block>>)
    IN  <<RMul(RAdd(lim.x_min, l.t.x_delta), l.t.x_scale),
          RMul(RAdd(lim.y_min, l.t.y_delta), l.t.y_scale),
          RMul(RAdd(lim.x_max, l.t.x_delta), l.t.x_scale),
          RMul(RAdd(lim.y_max, l.t.y_delta), l.t.y_scale)>>

TempFile(suffix, written, blocks, box) ==
    [suffix |-> suffix, written |-> written, blocks |-> blocks, box |-> box,
     exists |-> TRUE]

RECURSIVE CropFrom(_, _, _)
CropFrom(l, fs, i) ==
    IF i > Len(l.cropping_blocks) THEN [l |-> l, files |-> fs]
    ELSE LET block_idx == l.cropping_blocks[i]
             f == TempFile(".png", TRUE, <<block_idx>>, CropBox(l, l.blocks[block_idx + 1]))
             h == ImageHighlight(l.page_index, Idx(block_idx), OrEmptySet(l.page_tags),
                                 Len(fs) + 1)
         IN  CropFrom([l EXCEPT !.highlights = Append(@, h)], Append(fs, f), i + 1)

RECURSIVE DegradeFrom(_, _)
DegradeFrom(l, i) ==
    IF i > Len(l.cropping_blocks) THEN l
    ELSE LET block_idx == l.cropping_blocks[i]
             c == get_color(l.blocks[block_idx + 1])
         IN  IF ~c.ok THEN [l EXCEPT !.exc = "KeyError"]
             ELSE DegradeFrom([l EXCEPT !.svg_blocks =
                                 Append(@, [block_idx |-> block_idx, color |-> c.rgba])],
                              i + 1)

\* the list comprehension of lines 516-519 is built whole before extend
Degrade(l) ==
    LET d == DegradeFrom(l, 1)
    IN  IF d.exc # "" THEN [l EXCEPT !.exc = d.exc] ELSE d

\* the crop resolution without the fallback of lines 514-520
ResolveCrops_NoFallback(l, fs) ==
    IF l.cropping_blocks = <<>> THEN [l |-> l, files |-> fs]
    ELSE IF ~l.bound THEN [l |-> [l EXCEPT !.exc = "UnboundLocalError"], files |-> fs]
    ELSE IF l.base_image.present THEN CropFrom(l, fs, 1)
    ELSE [l |-> l, files |-> fs]

ResolveCrops(l, fs) ==
    IF l.cropping_blocks = <<>> THEN [l |-> l, files |-> fs]
    ELSE IF ~l.bound THEN [l |-> [l EXCEPT !.exc = "UnboundLocalError"], files |-> fs]
    ELSE IF l.base_image.present THEN CropFrom(l, fs, 1)
    ELSE [l |-> Degrade(l), files |-> fs]

(***************************************************************************)
(* lines 522-548: render the vector candidates into one temporary file and *)
(* emit the page's DrawingHighlight.  The file is created before the       *)
(* arguments of blocks_to_svg are evaluated; a written file is recorded    *)
(* with the blocks that were handed to blocks_to_svg.                      *)
(***************************************************************************)
\* line 529: the argument of blocks_to_svg, the candidates in list order (each
\* block stands by its index in the page)
SvgArgument(svg_blocks) == [i \in 1..Len(svg_blocks) |-> svg_blocks[i].block_idx]

\* the rendering without the test of svg_blocks at line 522
RenderDrawing_Unguarded(l, fs) ==
    IF ~l.bound
    THEN [l |-> [l EXCEPT !.exc = "UnboundLocalError"],
          files |-> Append(fs, TempFile(".svg", FALSE, <<>>, <<>>))]
    ELSE LET f == TempFile(".svg", TRUE, SvgArgument(l.svg_blocks), <<>>)
             h == DrawingHighlight(l.page_index, Inf, OrEmptySet(l.page_tags),
                                   Len(fs) + 1)
         IN  [l |-> [l EXCEPT !.highlights = Append(@, h),
                              !.svg_arg = SvgArgument(l.svg_blocks),
                              !.rendered = TRUE],
              files |-> Append(fs, f)]

RenderDrawing(l, fs) ==
    IF l.svg_blocks = <<>> THEN [l |-> l, files |-> fs]
    ELSE IF ~l.bound
    THEN [l |-> [l EXCEPT !.exc = "UnboundLocalError"],
          files |-> Append(fs, TempFile(".svg", FALSE, <<>>, <<>>))]
    ELSE LET f == TempFile(".svg", TRUE, SvgArgument(l.svg_blocks), <<>>)
             h == DrawingHighlight(l.page_index, Inf, OrEmptySet(l.page_tags),
                                   Len(fs) + 1)
         IN  [l |-> [l EXCEPT !.highlights = Append(@, h),
                              !.svg_arg = SvgArgument(l.svg_blocks),
                              !.rendered = TRUE],
              files |-> Append(fs, f)]

(***************************************************************************)
(* The documents of the extraction specification.                          *)
(***************************************************************************)
RectPoints == <<Pt(I2R(0), I2R(0)), Pt(I2R(2), I2R(0)), Pt(I2R(2), I2R(2)), Pt(I2R(0), I2R(2))>>
FreePoints == <<Pt(I2R(0), I2R(0)), Pt(I2R(3), I2R(1))>>

UnreadableBlock == Block("Unreadable", FALSE, <<>>, "", 0, <<>>, "BLACK", NoPos)
OtherBlock == Block("Other", FALSE, <<>>, "", 0, <<>>, "BLACK", NoPos)
LineWithoutValue == Block("Line", FALSE, <<>>, "", 0, <<>>, "BLACK", NoPos)
FreeStroke == Stroke(FreePoints, "BLACK", 0)
RectStroke == Stroke(RectPoints, "BLUE", 0)
TextGlyph == Glyph("Important", "HIGHLIGHT", <<164, 1, 30, 60, 90, 255>>, 0)

BlockPool ==
    {UnreadableBlock, OtherBlock, LineWithoutValue, FreeStroke, RectStroke, TextGlyph,
     TextParagraph(TRUE, Pt(I2R(1), I2R(1))),
     TextParagraph(FALSE, NoPos),
     Glyph("note", "YELLOW", <<>>, 0),
     Glyph("gone", "YELLOW", <<>>, 1),
     Glyph("", "YELLOW", <<>>, 0),
     Glyph("dim", "HIGHLIGHT", <<>>, 0),
     Stroke(RectPoints, "BLACK", 3),
     Stroke(<<>>, "BLACK", 0),
     Stroke(FreePoints, "HIGHLIGHT", 0),
     Stroke(RectPoints, "HIGHLIGHT", 0)}

Pages == SeqsUpTo(BlockPool, MaxBlocks)

\* the pages of the documents with several .rm files
DocPages ==
    {<<>>, <<TextGlyph>>, <<FreeStroke>>, <<TextParagraph(FALSE, NoPos)>>,
     <<RectStroke, TextGlyph>>}

KnownIds == {"p0", "p1"}
PageIds == KnownIds \cup {"u0", "u1"}

Node(rm_files, has_doc) ==
    [rm_files |-> rm_files,
     id2page |-> [id \in KnownIds |-> IF id = "p0" THEN 0 ELSE 1],
     page_tags |-> [i \in {1} |-> {"todo"}],
     has_doc |-> has_doc,
     image |-> Image(8, 12),
     zoom_width |-> I2R(4), zoom_height |-> I2R(6), center_y |-> I2R(3)]

RmFile(page_id, blocks) == [page_id |-> page_id, blocks |-> blocks]

Documents ==
    {<<RmFile(id, blocks)>> : id \in {"p0", "p1", "u0"}, blocks \in Pages}
    \cup {fs \in SeqsUpTo([page_id : PageIds, blocks : DocPages], MaxFiles) :
            \A i, j \in 1..Len(fs) : i # j => fs[i].page_id # fs[j].page_id}

NoCall == [page_index |-> PyNone, blocks |-> <<>>, page_tags |-> {}, has_doc |-> FALSE,
           highlights |-> <<>>, svg_blocks |-> <<>>, cropping_blocks |-> <<>>,
           exc |-> "", bound |-> FALSE, t |-> TIdle, base_image |-> NoImage,
           transform |-> "", svg_arg |-> <<>>, rendered |-> FALSE, files_before |-> 0]

Init ==
    /\ tin = TInIdle
    /\ tr = TIdle
    /\ \E rm_files \in Documents, has_doc \in BOOLEAN : node = Node(rm_files, has_doc)
    /\ enable_cropping \in BOOLEAN
    /\ rm_blocks = <<>>
    /\ pc = "read"
    /\ k = 1
    /\ order = <<>>
    /\ highlights = <<>>
    /\ loc = NoCall
    /\ exc = ""
    /\ files = <<>>
    /\ visited = <<>>
    /\ wr = NoWriter
    /\ fn = NoFn
    /\ fsys = NoFileSystem
    /\ un = NoUpdate

(***************************************************************************)
(* File.read_page_map, lines 54-64 of base/fs.py: one .rm file per step.   *)
(***************************************************************************)
PageIndexOf(page_id) ==
    IF page_id \in DOMAIN node.id2page THEN PyInt(node.id2page[page_id]) ELSE PyNone

ReadRmFile ==
    /\ pc = "read"
    /\ k <= Len(node.rm_files)
    /\ LET f == node.rm_files[k]
           page_index == PageIndexOf(f.page_id)
       IN  rm_blocks' = [key \in DOMAIN rm_blocks \cup {page_index} |->
                            IF key = page_index THEN f.blocks ELSE rm_blocks[key]]
    /\ k' = k + 1
    /\ UNCHANGED <<fsys, un, wr, fn, tin, tr, node, enable_cropping, pc, order, highlights, loc, exc,
                   files, visited>>

ReadDone ==
    /\ pc = "read"
    /\ k > Len(node.rm_files)
    /\ pc' = "extract"
    /\ UNCHANGED <<fsys, un, wr, fn, tin, tr, node, enable_cropping, rm_blocks, k, order, highlights, loc,
                   exc, files, visited>>

(***************************************************************************)
(* extract_highlights, lines 277-293 and 409.                              *)
(***************************************************************************)
RECURSIVE SortedInts(_)
SortedInts(S) ==
    IF S = {} THEN <<>>
    ELSE LET m == CHOOSE x \in S : \A y \in S : x <= y
         IN  <<m>> \o SortedInts(S \ {m})

\* sorted(node.rm_blocks.items(), key=lambda x: x[0]): None does not compare
\* with an int, so the sort raises TypeError when both are keys
SortRaises(keys) == Cardinality(keys) > 1 /\ \E key \in keys : key.none

SortedKeys(keys) ==
    IF \E key \in keys : key.none THEN <<PyNone>>
    ELSE LET s == SortedInts({key.i : key \in keys})
         IN  [i \in 1..Len(s) |-> PyInt(s[i])]

ExtractEnter ==
    /\ pc = "extract"
    /\ IF DOMAIN rm_blocks = {}
       THEN pc' = "done" /\ UNCHANGED <<order, k, exc>>
       ELSE IF SortRaises(DOMAIN rm_blocks)
       THEN pc' = "raised" /\ exc' = "TypeError" /\ UNCHANGED <<order, k>>
       ELSE pc' = "page" /\ order' = SortedKeys(DOMAIN rm_blocks) /\ k' = 1
                /\ UNCHANGED exc
    /\ UNCHANGED <<fsys, un, wr, fn, tin, tr, node, enable_cropping, rm_blocks, highlights, loc, files,
                   visited>>

\* line 283-292: the call of extract_highlights_from_blocks for the next page
PageEnter ==
    /\ pc = "page"
    /\ k <= Len(order)
    /\ LET page_index == order[k]
       IN  loc' = [NoCall EXCEPT
                     !.page_index = page_index,
                     !.blocks = rm_blocks[page_index],
                     !.page_tags = IF ~page_index.none /\ page_index.i \in DOMAIN node.page_tags
                                   THEN node.page_tags[page_index.i] ELSE {},
                     !.has_doc = node.has_doc,
                     !.files_before = Len(files)]
    /\ pc' = "classify"
    /\ UNCHANGED <<fsys, un, wr, fn, tin, tr, node, enable_cropping, rm_blocks, k, order, highlights, exc,
                   files, visited>>

\* line 409: every page was extended into highlights
ExtractReturn ==
    /\ pc = "page"
    /\ k > Len(order)
    /\ pc' = "done"
    /\ UNCHANGED <<fsys, un, wr, fn, tin, tr, node, enable_cropping, rm_blocks, k, order, highlights, loc,
                   exc, files, visited>>

(***************************************************************************)
(* extract_highlights_from_blocks, phase by phase.  An exception leaves    *)
(* the call and extract_highlights, which has no handler: pc = "raised".   *)
(***************************************************************************)
PageRecord(l) == [page_index |-> l.page_index, transform |-> l.transform, exc |-> l.exc,
                  highlights |-> l.highlights]

Proceed(l, next) ==
    /\ loc' = l
    /\ IF l.exc = ""
       THEN pc' = next /\ UNCHANGED <<exc, visited>>
       ELSE pc' = "raised" /\ exc' = l.exc /\ visited' = Append(visited, PageRecord(l))

Classify ==
    /\ pc = "classify"
    /\ LET acc == ClassifyFrom([highlights |-> <<>>, svg_blocks |-> <<>>,
                                cropping_blocks |-> <<>>, exc |-> ""],
                               loc.blocks, 1, loc.page_index, loc.page_tags,
                               enable_cropping)
       IN  Proceed([loc EXCEPT !.highlights = acc.highlights,
                               !.svg_blocks = acc.svg_blocks,
                               !.cropping_blocks = acc.cropping_blocks,
                               !.exc = acc.exc], "transform")
    /\ UNCHANGED <<fsys, un, wr, fn, tin, tr, node, enable_cropping, rm_blocks, k, order, highlights, files>>

Transform ==
    /\ pc = "transform"
    /\ Proceed(TransformPage(loc), "crop")
    /\ UNCHANGED <<fsys, un, wr, fn, tin, tr, node, enable_cropping, rm_blocks, k, order, highlights, files>>

Crop ==
    /\ pc = "crop"
    /\ LET r == ResolveCrops(loc, files)
       IN  Proceed(r.l, "render") /\ files' = r.files
    /\ UNCHANGED <<fsys, un, wr, fn, tin, tr, node, enable_cropping, rm_blocks, k, order, highlights>>

Render ==
    /\ pc = "render"
    /\ LET r == RenderDrawing(loc, files)
       IN  Proceed(r.l, "return") /\ files' = r.files
    /\ UNCHANGED <<fsys, un, wr, fn, tin, tr, node, enable_cropping, rm_blocks, k, order, highlights>>

\* line 550, and line 284 in the caller
Return ==
    /\ pc = "return"
    /\ highlights' = highlights \o loc.highlights
    /\ visited' = Append(visited, PageRecord(loc))
    /\ k' = k + 1
    /\ pc' = "page"
    /\ UNCHANGED <<fsys, un, wr, fn, tin, tr, node, enable_cropping, rm_blocks, order, loc, exc, files>>

Next ==
    \/ ReadRmFile
    \/ ReadDone
    \/ ExtractEnter
    \/ PageEnter
    \/ ExtractReturn
    \/ Classify
    \/ Transform
    \/ Crop
    \/ Render
    \/ Return

Spec == Init /\ [][Next]_vars

(***************************************************************************)
(* Properties of the extraction.  The page that extract_highlights is on   *)
(* is described by loc; it has ended when the call is about to return or   *)
(* has raised.                                                             *)
(***************************************************************************)
IsText(h) == h.cls = "TextHighlight"
IsImage(h) == h.cls = "ImageHighlight" /\ ~h.block_index.inf
IsDrawing(h) == h.cls = "ImageHighlight" /\ h.block_index.inf

Returning == pc = "return"
Raised == pc = "raised" /\ loc.exc # ""
PageEnded == Returning \/ Raised
\* the classification loop of the page ran to its end
Classified == pc \in {"transform", "crop", "render", "return"}
              \/ (pc = "raised" /\ loc.transform # "")

ImagesOf(hs, block_idx) ==
    {j \in 1..Len(hs) : IsImage(hs[j]) /\ hs[j].block_index = Idx(block_idx)}
TextsOf(hs, block_idx) ==
    {j \in 1..Len(hs) : IsText(hs[j]) /\ hs[j].block_index = Idx(block_idx)}
Drawings(hs) == {j \in 1..Len(hs) : IsDrawing(hs[j])}
InSeq(x, seq) == \E m \in 1..Len(seq) : seq[m] = x

\* a non-tombstoned stroke with points
LiveStroke(b) ==
    /\ b.kind = "Line" /\ b.has_value /\ b.deleted_length = 0
    /\ b.points # <<>> /\ b.text = ""

\* a non-tombstoned Stroke/Glyph with a non-empty text payload
LiveTextBlock(b) ==
    /\ b.kind \in {"Line", "Glyph"} /\ b.has_value /\ b.deleted_length = 0
    /\ b.text # ""

\* C3 as stated: in the list extract_highlights returns, two highlights of
\* the same page appear with the smaller block index first (the page's
\* DrawingHighlight, of index +infinity, last).
C3_SortedByBlockIndex ==
    pc = "done" =>
        \A i, j \in 1..Len(highlights) :
            (i < j /\ highlights[i].page_index = highlights[j].page_index)
                => IdxLe(highlights[i].block_index, highlights[j].block_index)

\* C4 as stated: a page whose id is not in the page map is still processed,
\* none of its blocks is dropped, also with several unknown pages or a mix
\* of known and unknown ones, and every highlight emitted for it carries
\* page index -1.
C4_UnknownPageIsMinusOne ==
    /\ exc # "TypeError"
    /\ PageEnded /\ loc.page_index.none
        => \A j \in 1..Len(loc.highlights) : loc.highlights[j].page_index = PyInt(-1)
    /\ pc \in {"extract", "page", "classify", "transform", "crop", "render", "return", "done"}
        => \A f \in 1..Len(node.rm_files) :
             node.rm_files[f].page_id \notin DOMAIN node.id2page
                => /\ PyNone \in DOMAIN rm_blocks
                   /\ \A b \in 1..Len(node.rm_files[f].blocks) :
                        InSeq(node.rm_files[f].blocks[b], rm_blocks[PyNone])

\* the DrawingHighlight of hs was rendered from the block of index block_idx
DrawnIn(hs, block_idx) ==
    \E j \in Drawings(hs) :
        /\ hs[j].image_path \in 1..Len(files)
        /\ files[hs[j].image_path].written
        /\ files[hs[j].image_path].suffix = ".svg"
        /\ InSeq(block_idx, files[hs[j].image_path].blocks)

\* C5: no handwriting is silently lost.  When the transform of a page
\* succeeded and the call returns (it raises when a color cannot be
\* resolved), every non-tombstoned stroke with points is either the source
\* of exactly one ImageHighlight or among the blocks rendered into the
\* page's DrawingHighlight; with cropping enabled and no reference raster,
\* every rectangular stroke is rendered into the DrawingHighlight.
C5_NoStrokeLost ==
    (Returning /\ loc.transform = "ok") =>
        \A i \in 1..Len(loc.blocks) :
            LiveStroke(loc.blocks[i]) =>
                LET n == Cardinality(ImagesOf(loc.highlights, i - 1))
                    drawn == DrawnIn(loc.highlights, i - 1)
                IN  /\ (n = 1 /\ ~drawn) \/ (n = 0 /\ drawn)
                    /\ (enable_cropping /\ ~loc.base_image.present
                            /\ is_rectangular(loc.blocks[i], DefaultThreshold)) => drawn

C5_Witness ==
    /\ Returning /\ loc.transform = "ok"
    /\ enable_cropping /\ ~loc.base_image.present
    /\ Len(loc.blocks) = 2
    /\ LiveStroke(loc.blocks[1]) /\ is_rectangular(loc.blocks[1], DefaultThreshold)
    /\ LiveStroke(loc.blocks[2]) /\ ~is_rectangular(loc.blocks[2], DefaultThreshold)
    /\ DrawnIn(loc.highlights, 0)

\* a page whose only block is one rectangular stroke
OneRectangle(blocks) ==
    /\ Len(blocks) = 1
    /\ LiveStroke(blocks[1])
    /\ is_rectangular(blocks[1], DefaultThreshold)

\* C6: a page whose only block is one rectangular stroke yields, with
\* cropping enabled and a reference raster present, exactly one
\* ImageHighlight, of the stroke's block index, and no DrawingHighlight (and
\* the call does not raise); with cropping disabled the call, when it returns,
\* yields no ImageHighlight and exactly one DrawingHighlight.
C6_OneRectangle ==
    OneRectangle(loc.blocks) =>
        /\ (enable_cropping /\ loc.has_doc /\ ~loc.page_index.none) =>
              /\ pc # "raised"
              /\ Returning =>
                   /\ Len(loc.highlights) = 1
                   /\ ImagesOf(loc.highlights, 0) = {1}
                   /\ loc.highlights[1].image_path = Len(files)
                   /\ files[Len(files)].suffix = ".png"
        /\ (~enable_cropping /\ Returning) =>
              /\ Len(loc.highlights) = 1
              /\ Drawings(loc.highlights) = {1}
              /\ DrawnIn(loc.highlights, 0)

C6_Witness ==
    /\ Returning
    /\ OneRectangle(loc.blocks)
    /\ enable_cropping /\ loc.base_image.present
    /\ ImagesOf(loc.highlights, 0) = {1}

C6_WitnessNoCropping ==
    /\ Returning
    /\ OneRectangle(loc.blocks)
    /\ ~enable_cropping /\ loc.base_image.present
    /\ Drawings(loc.highlights) = {1}

\* the color 4.1 prescribes: the last four raw bytes read as (b, g, r, a) when
\* there are at least 5 raw bytes, else the palette entry with alpha 255
PrescribedColor(b) ==
    LET e == b.extra_data
        n == Len(e)
    IN  IF n >= 5 THEN <<e[n - 1], e[n - 2], e[n - 3], e[n]>>
        ELSE remarkable_palette[b.color] \o <<255>>

TagsOfPage(page_index) ==
    IF ~page_index.none /\ page_index.i \in DOMAIN node.page_tags
    THEN node.page_tags[page_index.i] ELSE {}

\* C7: once the classification loop of a page has run, every non-tombstoned
\* Stroke/Glyph block with a non-empty text payload has produced exactly one
\* TextHighlight, carrying that text, the block's color, the block's position
\* as block index and the page's tag set, and is neither a crop nor a
\* vector-render candidate; a page that is one such Glyph returns exactly
\* that TextHighlight and no DrawingHighlight.
C7_TextHighlights ==
    /\ Classified =>
        \A i \in 1..Len(loc.blocks) :
            LiveTextBlock(loc.blocks[i]) =>
                /\ Cardinality(TextsOf(loc.highlights, i - 1)) = 1
                /\ \A j \in TextsOf(loc.highlights, i - 1) :
                     /\ loc.highlights[j].text = loc.blocks[i].text
                     /\ loc.highlights[j].color = PrescribedColor(loc.blocks[i])
                     /\ loc.highlights[j].tags = TagsOfPage(loc.page_index)
                /\ ~InSeq(i - 1, loc.cropping_blocks)
                /\ ~InSeq(i - 1, SvgArgument(loc.svg_blocks))
                /\ ~InSeq(i - 1, loc.svg_arg)
    /\ (Classified /\ Len(loc.blocks) = 1 /\ LiveTextBlock(loc.blocks[1])) =>
        /\ pc # "raised"
        /\ Returning => (Len(loc.highlights) = 1 /\ IsText(loc.highlights[1]))
        /\ Len(files) = loc.files_before

C7_Witness ==
    /\ Returning
    /\ Len(loc.blocks) = 1
    /\ LiveTextBlock(loc.blocks[1])
    /\ Len(loc.blocks[1].extra_data) >= 5
    /\ loc.highlights[1].text = "Important"
    /\ loc.highlights[1].color = <<90, 60, 30, 255>>

C9_TransformFailureReturnsTexts ==
    loc.transform = "TransformationError" =>
        /\ pc # "raised"
        /\ Len(files) = loc.files_before
        /\ Returning => \A j \in 1..Len(loc.highlights) : IsText(loc.highlights[j])

RECURSIVE Concat(_, _)
Concat(records, i) ==
    IF i > Len(records) THEN <<>>
    ELSE records[i].highlights \o Concat(records, i + 1)

\* C10 as stated: in a document of several pages, once extract_highlights
\* has ended, a transform failure on one page has not aborted it: every page
\* was visited, in ascending page order, the returned list holds the
\* highlights of every page, and the failing page contributed no
\* ImageHighlight and no DrawingHighlight.
C10_FailureDoesNotAbort ==
    (/\ pc \in {"done", "raised"}
     /\ Len(order) >= 2
     /\ \E v \in 1..Len(visited) : visited[v].transform = "TransformationError") =>
        /\ pc = "done"
        /\ Len(visited) = Len(order)
        /\ \A v \in 1..Len(visited) :
             /\ visited[v].page_index = order[v]
             /\ v > 1 => order[v - 1].i < order[v].i
             /\ visited[v].transform = "TransformationError"
                  => \A j \in 1..Len(visited[v].highlights) : IsText(visited[v].highlights[j])
        /\ highlights = Concat(visited, 1)

(***************************************************************************)
(* MarkdownWriter (export/markdown.py).  wr holds the note of the node     *)
(* ([exists, updated, pages]: updated is the stamp found by the regular    *)
(* expression of should_update, 0 when there is none), the names in the    *)
(* node's static directory, node.last_modified_time and the result of      *)
(* update.  The temporary files are the elements of files; os.remove       *)
(* clears their exists flag.  force is the argument of the last call,      *)
(* result the tuple it returned and removed what lines 92-98 deleted.      *)
(***************************************************************************)
Note(exists, updated, pages) == [exists |-> exists, updated |-> updated, pages |-> pages]
NoNote == Note(FALSE, 0, <<>>)

Writer(note, statics, last_modified_time) ==
    [pc |-> "idle", note |-> note, statics |-> statics,
     last_modified_time |-> last_modified_time,
     updated |-> FALSE, exc |-> "", calls |-> 0,
     force |-> FALSE, result |-> <<>>,
     removed |-> [note |-> FALSE, statics |-> {}]]

should_update_OnlyWhenNewerOrEqual(w, force) ==
    IF force THEN TRUE
    ELSE IF ~w.note.exists THEN TRUE
    ELSE IF w.note.updated = 0 THEN TRUE
    ELSE IF w.note.updated > w.last_modified_time THEN FALSE
    ELSE TRUE

\* lines 55-77
should_update(w, force) ==
    IF force THEN TRUE
    ELSE IF ~w.note.exists THEN TRUE
    ELSE IF w.note.updated = 0 THEN TRUE
    ELSE IF w.note.updated >= w.last_modified_time THEN FALSE
    ELSE TRUE

\* line 103: the sort key
PageKey(h) == IF h.page_index.none THEN -1 ELSE h.page_index.i

\* lines 101-104: sorted() is stable
RECURSIVE InsertByPage(_, _, _)
InsertByPage(sorted, h, i) ==
    IF i > Len(sorted) THEN Append(sorted, h)
    ELSE IF PageKey(sorted[i]) > PageKey(h)
    THEN SubSeq(sorted, 1, i - 1) \o <<h>> \o SubSeq(sorted, i, Len(sorted))
    ELSE InsertByPage(sorted, h, i + 1)

RECURSIVE SortedByPage(_, _, _)
SortedByPage(hs, i, sorted) ==
    IF i > Len(hs) THEN sorted
    ELSE SortedByPage(hs, i + 1, InsertByPage(sorted, hs[i], 1))

\* lines 100-106: groupby starts a group whenever the key x.page_index changes
RECURSIVE RunLength(_, _)
RunLength(hs, i) ==
    IF i > Len(hs) \/ hs[i].page_index # hs[1].page_index THEN i - 1
    ELSE RunLength(hs, i + 1)

RECURSIVE GroupBy(_)
GroupBy(hs) ==
    IF hs = <<>> THEN <<>>
    ELSE LET n == RunLength(hs, 1)
         IN  <<SubSeq(hs, 1, n)>> \o GroupBy(SubSeq(hs, n + 1, Len(hs)))

\* lines 109-135: one group; acc holds the rendered highlights of the page,
\* the temporary files, the static directory and the exception, if any
RECURSIVE RenderGroup(_, _, _)
RenderGroup(group, j, acc) ==
    IF j > Len(group) \/ acc.exc # "" THEN acc
    ELSE LET h == group[j]
         IN  IF h.cls = "ImageHighlight"
             THEN IF ~acc.files[h.image_path].exists
                  THEN [acc EXCEPT !.exc = "FileNotFoundError"]
                  ELSE RenderGroup(group, j + 1,
                         [acc EXCEPT
                            !.statics = @ \cup {h.image_path},
                            !.items = Append(@, [kind |-> "image", name |-> h.image_path,
                                                 color |-> <<>>, text |-> ""]),
                            !.files[h.image_path].exists = FALSE])
             ELSE RenderGroup(group, j + 1,
                    [acc EXCEPT !.items = Append(@, [kind |-> "text", name |-> 0,
                                                     color |-> h.color, text |-> h.text])])

\* lines 100-142: all groups; acc holds pages, files, statics and exc
RECURSIVE RenderPages(_, _, _)
RenderPages(groups, g, acc) ==
    IF g > Len(groups) \/ acc.exc # "" THEN acc
    ELSE LET group == groups[g]
             r == RenderGroup(group, 1, [items |-> <<>>, files |-> acc.files,
                                         statics |-> acc.statics, exc |-> ""])
             page == [page_index |-> group[1].page_index,
                      tags |-> group[Len(group)].tags,
                      highlights |-> r.items]
         IN  RenderPages(groups, g + 1,
                [pages |-> IF r.exc = "" THEN Append(acc.pages, page) ELSE acc.pages,
                 files |-> r.files, statics |-> r.statics, exc |-> r.exc])

\* lines 194-199: the finally clause removes every .png of the cache directory
RemovePngs(fs) ==
    [i \in 1..Len(fs) |-> IF fs[i].suffix = ".png" THEN [fs[i] EXCEPT !.exists = FALSE]
                          ELSE fs[i]]

MarkdownWriter_update_KeepsOldNote(w, hs, fs, force, render_fails) ==
    IF ~should_update(w, force)
    THEN [wr |-> [w EXCEPT !.pc = "returned", !.updated = FALSE, !.calls = @ + 1,
                           !.exc = "", !.force = force,
                           !.result = <<FALSE, PyNone, PyNone>>,
                           !.removed = [note |-> FALSE, statics |-> {}]],
          files |-> fs]
    ELSE LET r == RenderPages(GroupBy(SortedByPage(hs, 1, <<>>)), 1,
                              [pages |-> <<>>, files |-> fs, statics |-> {}, exc |-> ""])
             cleared == [w EXCEPT !.statics = r.statics, !.calls = @ + 1,
                                  !.exc = "", !.force = force, !.result = <<>>,
                                  !.removed = [note |-> w.note.exists,
                                               statics |-> w.statics]]
             new_last_modified == PyInt(w.last_modified_time)
         IN  IF r.exc # ""
             THEN [wr |-> [cleared EXCEPT !.pc = "raised", !.exc = r.exc], files |-> r.files]
             ELSE IF render_fails
             THEN [wr |-> [cleared EXCEPT !.pc = "raised", !.exc = "Exception"],
                   files |-> RemovePngs(r.files)]
             ELSE IF r.pages # <<>>
             THEN [wr |-> [cleared EXCEPT !.pc = "returned", !.updated = TRUE,
                                          !.note = Note(TRUE, w.last_modified_time, r.pages),
                                          !.result = <<TRUE, PyNone, new_last_modified>>],
                   files |-> RemovePngs(r.files)]
             ELSE [wr |-> [cleared EXCEPT !.pc = "returned", !.updated = FALSE,
                                          !.result = <<FALSE, PyNone, new_last_modified>>],
                   files |-> RemovePngs(r.files)]

\* lines 79-201: update(node, force, highlights); render_fails tells whether the
\* title getter or the template raises.  The result is the writer and the files.
MarkdownWriter_update(w, hs, fs, force, render_fails) ==
    IF ~should_update(w, force)
    THEN [wr |-> [w EXCEPT !.pc = "returned", !.updated = FALSE, !.calls = @ + 1,
                           !.exc = "", !.force = force,
                           !.result = <<FALSE, PyNone, PyNone>>,
                           !.removed = [note |-> FALSE, statics |-> {}]],
          files |-> fs]
    ELSE LET r == RenderPages(GroupBy(SortedByPage(hs, 1, <<>>)), 1,
                              [pages |-> <<>>, files |-> fs, statics |-> {}, exc |-> ""])
             cleared == [w EXCEPT !.note = NoNote, !.statics = r.statics, !.calls = @ + 1,
                                  !.exc = "", !.force = force, !.result = <<>>,
                                  !.removed = [note |-> w.note.exists,
                                               statics |-> w.statics]]
             new_last_modified == PyInt(w.last_modified_time)
         IN  IF r.exc # ""
             THEN [wr |-> [cleared EXCEPT !.pc = "raised", !.exc = r.exc], files |-> r.files]
             ELSE IF render_fails
             THEN [wr |-> [cleared EXCEPT !.pc = "raised", !.exc = "Exception"],
                   files |-> RemovePngs(r.files)]
             ELSE IF r.pages # <<>>
             THEN [wr |-> [cleared EXCEPT !.pc = "returned", !.updated = TRUE,
                                          !.note = Note(TRUE, w.last_modified_time, r.pages),
                                          !.result = <<TRUE, PyNone, new_last_modified>>],
                   files |-> RemovePngs(r.files)]
             ELSE [wr |-> [cleared EXCEPT !.pc = "returned", !.updated = FALSE,
                                          !.result = <<FALSE, PyNone, new_last_modified>>],
                   files |-> RemovePngs(r.files)]

(***************************************************************************)
(* update_notes, lines 261-264, for one node under the prefix: the         *)
(* extractor runs first (the actions of Spec), then writer.update.  An     *)
(* exception of the extractor leaves update_notes before update is called. *)
(***************************************************************************)
NoteStamps == {0, 1, 2, 3}
Notes == {NoNote} \cup {Note(TRUE, stamp, <<>>) : stamp \in NoteStamps}
Writers == {Writer(note, statics, 2) : note \in Notes, statics \in {{}, {"stale"}}}

ExportPages ==
    {<<>>, <<TextGlyph>>, <<FreeStroke>>, <<RectStroke>>, <<RectStroke, TextGlyph>>,
     <<RectStroke, FreeStroke>>, <<TextParagraph(FALSE, NoPos)>>}

ExportDocuments ==
    {fs \in SeqsUpTo([page_id : {"p0", "p1", "u0"}, blocks : ExportPages], MaxFiles) :
        /\ fs # <<>>
        /\ \A i, j \in 1..Len(fs) : i # j => fs[i].page_id # fs[j].page_id}

InitE ==
    /\ tin = TInIdle
    /\ tr = TIdle
    /\ \E rm_files \in ExportDocuments, has_doc \in BOOLEAN : node = Node(rm_files, has_doc)
    /\ enable_cropping \in BOOLEAN
    /\ rm_blocks = <<>>
    /\ pc = "read"
    /\ k = 1
    /\ order = <<>>
    /\ highlights = <<>>
    /\ loc = NoCall
    /\ exc = ""
    /\ files = <<>>
    /\ visited = <<>>
    /\ wr \in Writers
    /\ fn = NoFn
    /\ fsys = NoFileSystem
    /\ un = NoUpdate

WriterUpdate ==
    /\ pc = "done"
    /\ wr.pc = "idle"
    /\ \E force \in BOOLEAN, render_fails \in BOOLEAN :
         LET r == MarkdownWriter_update(wr, highlights, files, force, render_fails)
         IN  wr' = r.wr /\ files' = r.files
    /\ UNCHANGED <<fsys, un, fn, tin, tr, node, enable_cropping, rm_blocks, pc, k, order, highlights,
                   loc, exc, visited>>

\* a later run of update_notes over the same node: the device may have
\* modified the node since (lastModified grows), the extractor runs again and
\* writes its temporary files again, then writer.update is called
MaxUpdates == 2

Rewritten(fs) == [i \in 1..Len(fs) |-> [fs[i] EXCEPT !.exists = TRUE]]

WriterUpdateAgain ==
    /\ pc = "done"
    /\ wr.pc = "returned"
    /\ wr.calls < MaxUpdates
    /\ \E force \in BOOLEAN, render_fails \in BOOLEAN, later \in {0, 1} :
         LET w == [wr EXCEPT !.last_modified_time = @ + later]
             r == MarkdownWriter_update(w, highlights, Rewritten(files), force, render_fails)
         IN  wr' = r.wr /\ files' = r.files
    /\ UNCHANGED <<fsys, un, fn, tin, tr, node, enable_cropping, rm_blocks, pc, k, order, highlights,
                   loc, exc, visited>>

NextE ==
    \/ Next
    \/ WriterUpdate
    \/ WriterUpdateAgain

SpecE == InitE /\ [][NextE]_vars

\* the temporary files the highlights of the node point at that are still in
\* the cache directory
Remaining ==
    {j \in 1..Len(highlights) :
        /\ highlights[j].cls = "ImageHighlight"
        /\ files[highlights[j].image_path].exists}

\* C11 as stated: once MarkdownWriter.update has returned for a node, whether
\* it updated the note or skipped it, none of the temporary files that the
\* node's ImageHighlights and DrawingHighlights point at is left in the cache
\* directory.
C11_TempFilesDeleted ==
    wr.pc = "returned" => Remaining = {}

(***************************************************************************)
(* The loops of get_transformation.                                        *)
(***************************************************************************)
\* a step that is one iteration of a widening loop
IterationStep == tr'.hiter # tr.hiter \/ tr'.viter # tr.viter

NeverDecrease ==
    /\ RLe(tr.x_delta, tr'.x_delta)
    /\ RLe(tr.y_delta, tr'.y_delta)
    /\ RLe(tr.screen_width, tr'.screen_width)
    /\ RLe(tr.screen_height, tr'.screen_height)

\* C12: each of the two widening loops of get_transformation runs its body
\* at most once, after which its condition is false and the loop is left (so
\* both loops terminate, far below the cap of 1000 iterations), and an
\* iteration never decreases x_delta, y_delta, canvas_width or canvas_height.
C12_LoopsTerminate ==
    [][/\ tr'.hiter <= 1
       /\ tr'.viter <= 1
       /\ (tr'.pc = "hloop" /\ tr'.hiter = 1) => ~HCond(tr')
       /\ (tr'.pc = "vloop" /\ tr'.viter = 1) => ~VCond(tr')
       /\ IterationStep => NeverDecrease]_vars

C12_Witness ==
    /\ tr.pc = "done"
    /\ tr.hiter = 1
    /\ tr.viter = 1
    /\ RLt(tin.zoom_width, tr.screen_width)
    /\ RLt(tin.zoom_height, tr.screen_height)
    /\ RLt(RZero, tr.y_delta)

(***************************************************************************)
(* The scale of get_transformation (lines 232-255), seen on the step that  *)
(* leaves the vertical loop: tr holds the canvas of the loops, tr' the     *)
(* returned record.                                                        *)
(***************************************************************************)
\* n is ceil(p): the integer with n - 1 < p <= n
IsCeilOf(n, p) == n[2] = 1 /\ RLe(p, n) /\ RLt(RSub(n, I2R(1)), p)

\* s is p rounded to 2 decimals: a multiple of 1/100 at most 1/200 away
IsRounded2(s, p) ==
    /\ RMul(s, I2R(100))[2] = 1
    /\ RLe(RAbs(RSub(s, p)), Rat(1, 200))

Returns == tr.pc = "vloop" /\ tr'.pc = "done"

\* C13: with a reference raster (rw, rh) and the rounded-up canvas (cw, ch) of
\* the loops, get_transformation returns x_scale = y_scale =
\* min(rw/cw, rh/ch) rounded to 2 decimals and the canvas
\* (ceil(max(cw * scale, rw)), ceil(max(ch * scale, rh))), which is at least
\* as large as the raster; without a raster it returns x_scale = y_scale = 1
\* and the canvas (cw, ch).
C13_Scale ==
    [][Returns =>
        \E cw, ch \in {tr.screen_width, I2R(Floor(tr.screen_width) + 1),
                       tr.screen_height, I2R(Floor(tr.screen_height) + 1)} :
            /\ IsCeilOf(cw, tr.screen_width)
            /\ IsCeilOf(ch, tr.screen_height)
            /\ tr'.x_scale = tr'.y_scale
            /\ IF tin.image.present
               THEN LET rw == I2R(tin.image.width)
                        rh == I2R(tin.image.height)
                        m == IF RLt(RDiv(rh, ch), RDiv(rw, cw)) THEN RDiv(rh, ch)
                             ELSE RDiv(rw, cw)
                        sw == RMul(cw, tr'.x_scale)
                        sh == RMul(ch, tr'.y_scale)
                    IN  /\ IsRounded2(tr'.x_scale, m)
                        /\ IsCeilOf(tr'.screen_width, IF RLt(sw, rw) THEN rw ELSE sw)
                        /\ IsCeilOf(tr'.screen_height, IF RLt(sh, rh) THEN rh ELSE sh)
                        /\ RLe(rw, tr'.screen_width)
                        /\ RLe(rh, tr'.screen_height)
               ELSE /\ tr'.x_scale = I2R(1)
                    /\ tr'.screen_width = cw
                    /\ tr'.screen_height = ch]_vars

\* a call with a raster whose scale is really rounded: it is neither of the
\* quotients raster / canvas
C13_Witness ==
    /\ tr.pc = "done"
    /\ tin.image.present
    /\ \A c \in 1..100 : /\ tr.x_scale # Rat(tin.image.width, c)
                         /\ tr.x_scale # Rat(tin.image.height, c)

\* C21: canvas growth keeps the nominal aspect ratio: whenever a widening
\* loop of get_transformation enlarges one canvas dimension the other is
\* scaled by the same factor, so at every point of the two loops (before the
\* final round-up) screen_height / screen_width = zoom_height / zoom_width.
C21_AspectRatio ==
    tr.pc \in {"hloop", "vloop"} =>
        RMul(tr.screen_height, tin.zoom_width) = RMul(tr.screen_width, tin.zoom_height)

\* both loops have enlarged the canvas: the width is the one the vertical
\* loop scaled, no longer the integer the horizontal loop set
C21_Witness ==
    /\ tr.pc = "vloop"
    /\ tr.hiter = 1
    /\ tr.viter = 1
    /\ RLt(tin.zoom_height, tr.screen_height)
    /\ RLt(I2R(5), tr.screen_width)
    /\ tr.screen_width[2] # 1

\* C22: each canvas-widening loop of get_transformation runs its body at most
\* once: after one pass of the horizontal (vertical) loop every disjunct of
\* that loop's condition is false.
C22_OnePassSuffices ==
    /\ tr.hiter <= 1
    /\ tr.viter <= 1
    /\ (tr.pc = "hloop" /\ tr.hiter = 1) =>
          /\ RLe(RSub(tr.x_max, tr.x_min), tr.screen_width)
          /\ RLe(RZero, RAdd(tr.x_min, tr.x_delta))
          /\ RLe(RAdd(tr.x_max, tr.x_delta), tr.screen_width)
          /\ RLe(tr.x_max, tr.screen_width)
          /\ RLe(RMul(tr.x_delta, I2R(2)), tr.screen_width)
    /\ (tr.pc = "vloop" /\ tr.viter = 1) =>
          /\ RLe(RSub(tr.y_max, tr.y_min), tr.screen_height)
          /\ RLe(RZero, RAdd(tr.y_min, tr.y_delta))
          /\ RLe(RAdd(tr.y_max, tr.y_delta), tr.screen_height)
          /\ RLe(tr.y_max, tr.screen_height)

\* the vertical loop has run once and moved the page down (y_delta > 0),
\* after the horizontal loop has run once
C22_Witness ==
    /\ tr.pc = "vloop"
    /\ tr.hiter = 1
    /\ tr.viter = 1
    /\ RLt(RZero, tr.y_delta)
    /\ RLt(tin.zoom_height, tr.screen_height)

\* a block of the page that extract_highlights_from_blocks crops out of the
\* raster: a live rectangular stroke
CropCandidate(block) ==
    /\ block.kind = "Line"
    /\ block.has_value
    /\ block.deleted_length = 0
    /\ is_rectangular(block, DefaultThreshold)

\* C23: every crop rectangle handed to the reference raster lies inside the
\* raster: 0 <= (x_min + x_delta) * x_scale <= (x_max + x_delta) * x_scale <=
\* raster width, and likewise vertically with the raster height.
C23_CropInsideRaster ==
    (tr.pc = "done" /\ tin.image.present) =>
        \A i \in 1..Len(tin.blocks) :
            CropCandidate(tin.blocks[i]) =>
                LET box == CropBox([t |-> tr], tin.blocks[i])
                IN  /\ RLe(RZero, box[1]) /\ RLe(box[1], box[3])
                    /\ RLe(box[3], I2R(tin.image.width))
                    /\ RLe(RZero, box[2]) /\ RLe(box[2], box[4])
                    /\ RLe(box[4], I2R(tin.image.height))

\* what the code keeps: the crop rectangle lies inside the final canvas
C23_CropInsideCanvas ==
    (tr.pc = "done" /\ tin.image.present) =>
        \A i \in 1..Len(tin.blocks) :
            CropCandidate(tin.blocks[i]) =>
                LET box == CropBox([t |-> tr], tin.blocks[i])
                IN  /\ RLe(RZero, box[1]) /\ RLe(box[1], box[3])
                    /\ RLe(box[3], tr.screen_width)
                    /\ RLe(RZero, box[2]) /\ RLe(box[2], box[4])
                    /\ RLe(box[4], tr.screen_height)

\* C24: all highlights emitted while one page is processed carry the same
\* page index, and for a page known to the page map that index is the page's
\* own index, page 0 included.
C24_OnePageIndex ==
    Returning =>
        LET hs == loc.highlights
        IN  /\ \A i, j \in 1..Len(hs) : hs[i].page_index = hs[j].page_index
            /\ ~loc.page_index.none =>
                  \A i \in 1..Len(hs) : hs[i].page_index = loc.page_index

\* what the code keeps: the claim for every known page but page 0, and for
\* the ImageHighlights and DrawingHighlights of page 0
C24_OnePageIndexButTextOfPageZero ==
    (Returning /\ ~loc.page_index.none) =>
        \A i \in 1..Len(loc.highlights) :
            LET h == loc.highlights[i]
            IN  IF IsText(h) /\ loc.page_index.i = 0
                THEN h.page_index = PyInt(-1)
                ELSE h.page_index = loc.page_index

\* C25: the vector-render candidates handed to blocks_to_svg are in ascending
\* block index (the page order, which is the drawing order), whatever the
\* cropping flag and the raster, also when rectangular strokes fall back
\* from crop candidates to vector candidates.
C25_CandidatesInPageOrder ==
    loc.rendered =>
        \A i, j \in 1..Len(loc.svg_arg) : i < j => loc.svg_arg[i] < loc.svg_arg[j]

\* what the code keeps: the candidates are in page order unless crop
\* candidates fell back, and then the fallen-back ones follow the others,
\* each group in page order
C25_FallbackLast ==
    loc.rendered =>
        \A i, j \in 1..Len(loc.svg_arg) :
            (i < j /\ loc.svg_arg[i] > loc.svg_arg[j]) =>
                /\ enable_cropping
                /\ ~loc.base_image.present
                /\ InSeq(loc.svg_arg[j], loc.cropping_blocks)
                /\ ~InSeq(loc.svg_arg[i], loc.cropping_blocks)

\* what get_transformation returns or raises
Outcome(t) ==
    <<t.pc, t.x_delta, t.y_delta, t.screen_width, t.screen_height, t.x_scale, t.y_scale>>

TEnded == tr.pc \in {"done", "TransformationError", "AssertionError"}

\* C26: blocks that the classification skips do not influence the transform
\* of the page: it equals the transform of the same page with its tombstoned
\* strokes (deleted_length > 0) removed.
C26_TombstonesIgnored ==
    TEnded =>
        LET Live(b) == ~(b.kind = "Line" /\ b.deleted_length > 0)
            page == [tin EXCEPT !.blocks = SelectSeq(tin.blocks, Live)]
        IN  Outcome(get_transformation(page)) = Outcome(tr)

\* what the code keeps: the blocks without coordinates (a Glyph, a stroke
\* without value, a text block without value) do not influence the transform
C26_BlocksWithoutPointsIgnored ==
    TEnded =>
        LET HasPoints(b) == CoordValues(<<b>>, "x") # <<>>
            page == [tin EXCEPT !.blocks = SelectSeq(tin.blocks, HasPoints)]
        IN  Outcome(get_transformation(page)) = Outcome(tr)

(***************************************************************************)
(* Repeated updates of one node.                                           *)
(***************************************************************************)
\* the call went past should_update: it returned node.last_modified_time as
\* the third value, or it raised
Proceeded(w) ==
    \/ w.pc = "raised"
    \/ w.pc = "returned" /\ w.result # <<>> /\ w.result[3] = PyInt(w.last_modified_time)

UpdateStep == wr'.calls = wr.calls + 1

\* C27: MarkdownWriter.update is idempotent for an unchanged node: after an
\* update that wrote the note (which records the node's last-modified time),
\* a second non-forced update of the node with the same last-modified time
\* returns (False, None, None) and leaves the note and the static directory
\* as they are; a forced update, or an update of a node whose last-modified
\* time is strictly later than the one the note records, always proceeds.
C27_Idempotent ==
    [][/\ (/\ UpdateStep
           /\ wr.pc = "returned" /\ wr.updated
           /\ ~wr'.force
           /\ wr'.last_modified_time = wr.last_modified_time)
          => /\ wr'.pc = "returned"
             /\ wr'.result = <<FALSE, PyNone, PyNone>>
             /\ wr'.note = wr.note
             /\ wr'.statics = wr.statics
       /\ (/\ UpdateStep
           /\ \/ wr'.force
              \/ wr.note.exists /\ wr.note.updated < wr'.last_modified_time)
          => Proceeded(wr')]_vars

\* the second update of a node whose note the first update wrote, with its
\* image in the static directory, was skipped
C27_Witness ==
    /\ wr.pc = "returned"
    /\ wr.calls = 2
    /\ ~wr.force
    /\ wr.result = <<FALSE, PyNone, PyNone>>
    /\ wr.note.exists
    /\ wr.note.pages # <<>>
    /\ wr.note.updated = wr.last_modified_time
    /\ wr.statics # {}

\* C28: when MarkdownWriter.update goes past should_update and returns, the
\* note of the node exists afterwards iff the list of highlights was not
\* empty: with a highlight the note is written and the first value returned
\* is True; with none, the old note and the old static files are deleted,
\* nothing is written and the first value returned is False.
C28_NoteIffHighlights ==
    (wr.pc = "returned" /\ Proceeded(wr)) =>
        IF highlights # <<>>
        THEN /\ wr.note.exists
             /\ wr.note.pages # <<>>
             /\ wr.note.updated = wr.last_modified_time
             /\ wr.result[1] = TRUE
        ELSE /\ ~wr.note.exists
             /\ wr.statics = {}
             /\ wr.result[1] = FALSE

\* an update without highlights deleted the old note and the old static file
C28_Witness ==
    /\ wr.pc = "returned"
    /\ Proceeded(wr)
    /\ highlights = <<>>
    /\ wr.removed.note
    /\ wr.removed.statics # {}
    /\ ~wr.note.exists

\* an update with highlights replaced the old note
C28_WitnessWritten ==
    /\ wr.pc = "returned"
    /\ Proceeded(wr)
    /\ highlights # <<>>
    /\ wr.removed.note
    /\ wr.note.exists

(***************************************************************************)
(* FileSystem (base/fs.py) and update_notes (export/markdown.py).  fsys    *)
(* holds the metadata of the files of the source directory ([parent,       *)
(* deleted] for each file id), FileSystem.nodes as the sequence of the ids *)
(* in insertion order, and the children list of every File.  Names and     *)
(* paths are sequences of characters.  un holds the pending calls of       *)
(* update_notes (the first is the running one), the number of calls of     *)
(* writer.update for each node, and the branches added to the tree.        *)
(***************************************************************************)
FileIds == {"a", "b", "c"}
RootId == "root"

\* metadata["visibleName"]; line 218 for the root
visibleName ==
    [id \in FileIds \cup {RootId} |->
        CASE id = "a" -> <<"a">>
          [] id = "b" -> <<"a", "b">>
          [] id = "c" -> <<"b">>
          [] OTHER -> <<"R", "o", "o", "t">>]

\* lines 160-162: File.deleted
File_deleted(metadata) == metadata.deleted \/ metadata.parent = "trash"

add_node_KeepsTrash(nodes, node_id, metadata) ==
    IF metadata.deleted THEN nodes ELSE Append(nodes, node_id)

\* lines 226-231: nodes is a dict; the ids are distinct
add_node(nodes, node_id, metadata) ==
    IF File_deleted(metadata) THEN nodes ELSE Append(nodes, node_id)

\* lines 256-263: the loop of parse_hierarchy over file_ids in the given order
RECURSIVE AddNodes(_, _, _, _)
AddNodes(file_ids, metadata, i, nodes) ==
    IF i > Len(file_ids) THEN nodes
    ELSE AddNodes(file_ids, metadata, i + 1, add_node(nodes, file_ids[i], metadata[file_ids[i]]))

\* lines 233-239
RECURSIVE build_hierarchy(_, _, _, _)
build_hierarchy(nodes, metadata, i, children) ==
    IF i > Len(nodes) THEN children
    ELSE LET node_ == nodes[i]
             parent_id == metadata[node_].parent
         IN  build_hierarchy(nodes, metadata, i + 1,
                IF \E j \in 1..Len(nodes) : nodes[j] = parent_id
                THEN [children EXCEPT ![parent_id] = Append(@, node_)]
                ELSE [children EXCEPT ![RootId] = Append(@, node_)])

\* line 223: read_file_ids returns a set, which the loop of line 256 iterates
\* in an arbitrary order
FileIdOrders ==
    {o \in [1..Cardinality(FileIds) -> FileIds] : \A i, j \in DOMAIN o : i # j => o[i] # o[j]}

InitU ==
    /\ tin = TInIdle
    /\ tr = TIdle
    /\ ExtractionIdle
    /\ wr = NoWriter
    /\ fn = NoFn
    /\ \E metadata \in [FileIds -> [parent : FileIds \cup {"", "trash"}, deleted : BOOLEAN]] :
         fsys = [pc |-> "new", metadata |-> metadata]
    /\ un = NoUpdate

otherVars == <<tin, tr, extractionVars, wr, fn>>

\* lines 209-224, 255-266: FileSystem.__post_init__
FileSystem_post_init ==
    /\ fsys.pc = "new"
    /\ \E file_ids \in FileIdOrders :
         LET nodes == AddNodes(file_ids, fsys.metadata, 1, <<>>)
         IN  fsys' = [pc |-> "done", metadata |-> fsys.metadata, nodes |-> nodes,
                      children |-> build_hierarchy(nodes, fsys.metadata, 1,
                                      [id \in FileIds \cup {RootId} |-> <<>>])]
    /\ UNCHANGED <<otherVars, un>>

\* str.startswith
startswith(s, prefix) ==
    Len(prefix) <= Len(s) /\ SubSeq(s, 1, Len(prefix)) = prefix

RootPath == <<"/", "R", "o", "o", "t">>

\* base/fs.py 216-221 and export/markdown.py 163, 181: the metadata of the root
\* is {"visibleName", "type"}, so node.created_time raises KeyError when update
\* renders the note of the root; the metadata of the files of the device has
\* the key
HasCreatedTime(node_) == node_ # RootId

\* lines 227-245: update(fs, prefix, writer)
Update ==
    /\ fsys.pc = "done"
    /\ un.pc = "idle"
    /\ \E prefix \in {<<"/", "R">>, RootPath, RootPath \o <<"/">>, RootPath \o <<"/", "a">>,
                      RootPath \o <<"/", "a", "/">>, RootPath \o <<"/", "a", "b">>,
                      RootPath \o <<"/", "b">>, RootPath \o <<"/", "c">>} :
         un' = [pc |-> "running", prefix |-> prefix, exc |-> "",
                stack |-> <<[node |-> RootId, path |-> RootPath]>>,
                calls |-> [id \in FileIds \cup {RootId} |-> 0],
                tree |-> <<>>]
    /\ UNCHANGED <<otherVars, fsys>>

\* lines 250-285: one call of update_notes; the calls for the children are
\* pending in front of the calls for the siblings
update_notes ==
    /\ un.pc = "running"
    /\ LET node_ == Head(un.stack).node
           path == Head(un.stack).path
           matches == startswith(path, un.prefix)
       IN  IF matches /\ ~HasCreatedTime(node_)
           THEN un' = [un EXCEPT !.pc = "raised", !.exc = "KeyError",
                                 !.calls[node_] = @ + 1]
           ELSE \E updated \in IF matches THEN BOOLEAN ELSE {FALSE} :
                  LET label == IF ~matches THEN "red" ELSE IF updated THEN "green" ELSE "yellow"
                      children == fsys.children[node_]
                      calls == IF ~matches /\ ~startswith(un.prefix, path) THEN <<>>
                               ELSE [j \in 1..Len(children) |->
                                       [node |-> children[j],
                                        path |-> path \o <<"/">> \o visibleName[children[j]]]]
                      stack == calls \o Tail(un.stack)
                  IN  un' = [un EXCEPT !.pc = IF stack = <<>> THEN "returned" ELSE @,
                                       !.stack = stack,
                                       !.calls[node_] = @ + (IF matches THEN 1 ELSE 0),
                                       !.tree = Append(@, <<node_, label>>)]
    /\ UNCHANGED <<otherVars, fsys>>

NextU ==
    \/ FileSystem_post_init
    \/ Update
    \/ update_notes

SpecU == InitU /\ [][NextU]_vars

\* the nodes reachable from a node through children lists, with their paths
RECURSIVE PathsFrom(_, _)
PathsFrom(node_, path) ==
    {<<node_, path>>} \cup
    UNION {PathsFrom(fsys.children[node_][j], path \o <<"/">> \o visibleName[fsys.children[node_][j]]) :
             j \in 1..Len(fsys.children[node_])}

UpdateEnded == un.pc \in {"returned", "raised"}

\* C29: update_notes started at the root with path '/Root' calls writer.update
\* exactly once on every node reachable through children lists whose path
\* starts with the prefix, and on no node whose path does not start with the
\* prefix; pruning a subtree never cuts off a node whose path starts with the
\* prefix.
C29_ExactlyOnce ==
    UpdateEnded =>
        \A np \in PathsFrom(RootId, RootPath) :
            un.calls[np[1]] = IF startswith(np[2], un.prefix) THEN 1 ELSE 0

\* the same for the runs that return: the prefix is longer than '/Root', so
\* that writer.update is not called on the root
C29_ExactlyOnceBelowRoot ==
    un.pc = "returned" =>
        /\ ~startswith(RootPath, un.prefix)
        /\ \A np \in PathsFrom(RootId, RootPath) :
             un.calls[np[1]] = IF startswith(np[2], un.prefix) THEN 1 ELSE 0

\* a run returned that updated a node two levels below the root and pruned a
\* subtree
C29_WitnessReturned ==
    /\ un.pc = "returned"
    /\ \E np \in PathsFrom(RootId, RootPath) : Len(np[2]) > Len(un.prefix) /\ un.calls[np[1]] = 1
    /\ \E id \in FileIds : fsys.children[id] # <<>> /\ \A j \in 1..Len(un.tree) : un.tree[j][1] # fsys.children[id][1]

\* the places (list, position) of the children lists that hold a node
Places(id) ==
    {place \in (FileIds \cup {RootId}) \X (1..Cardinality(FileIds)) :
        /\ place[2] <= Len(fsys.children[place[1]])
        /\ fsys.children[place[1]][place[2]] = id}

Retained(id) == ~fsys.metadata[id].deleted /\ fsys.metadata[id].parent # "trash"

\* C30: after the construction of the FileSystem every retained node is in
\* exactly one children list, once: the list of its parent when the parent
\* is retained, the list of the root otherwise; a deleted node (deleted flag
\* set, or parent 'trash') is in no children list.
C30_OneChildrenList ==
    fsys.pc = "done" =>
        \A id \in FileIds :
            LET parent == fsys.metadata[id].parent
                home == IF parent \in FileIds /\ Retained(parent) THEN parent ELSE RootId
            IN  IF Retained(id)
                THEN /\ Cardinality(Places(id)) = 1
                     /\ \A place \in Places(id) : place[1] = home
                ELSE Places(id) = {}

\* a retained node whose parent collection was deleted is under the root, next
\* to a node that is under its retained parent, and a deleted node
C30_Witness ==
    /\ fsys.pc = "done"
    /\ \E id \in FileIds :
         /\ Retained(id)
         /\ fsys.metadata[id].parent \in FileIds
         /\ ~Retained(fsys.metadata[id].parent)
         /\ \E j \in 1..Len(fsys.children[RootId]) : fsys.children[RootId][j] = id
    /\ \E id \in FileIds : fsys.children[id] # <<>>

(***************************************************************************)
(* The helper functions, one call each: SpecF draws the arguments of a     *)
(* call from bounded sets and records them in fn with the result.          *)
(***************************************************************************)
ByteSeqs == SeqsUpTo({0, 7, 255}, MaxBytes)

ColorBlocks ==
    {Glyph("Important", color, extra_data, 0) : color \in PenColors, extra_data \in ByteSeqs}
    \cup {Block("Line", TRUE, FreePoints, "", 0, extra_data, color, NoPos) :
            color \in {"BLACK", "HIGHLIGHT"}, extra_data \in ByteSeqs}

InitF ==
    /\ tin = TInIdle
    /\ tr = TIdle
    /\ ExtractionIdle
    /\ wr = NoWriter
    /\ fn = NoFn
    /\ fsys = NoFileSystem
    /\ un = NoUpdate

CallGetColor ==
    /\ fn = NoFn
    /\ \E block \in ColorBlocks :
         fn' = [name |-> "get_color", block |-> block, result |-> get_color(block)]
    /\ UNCHANGED <<tin, tr, extractionVars, wr, fsys, un>>

\* C14: with at least 5 bytes of raw metadata get_color returns (r, g, b, a)
\* from the last four bytes read as (b, g, r, a), whatever the declared
\* color; with 0 to 4 bytes it returns the palette entry of the declared
\* color with alpha 255.
C14_GetColor ==
    fn.name = "get_color" =>
        LET e == fn.block.extra_data
            n == Len(e)
        IN  IF n >= 5
            THEN /\ fn.result.ok
                 /\ fn.result.rgba[1] = e[n - 1]
                 /\ fn.result.rgba[2] = e[n - 2]
                 /\ fn.result.rgba[3] = e[n - 3]
                 /\ fn.result.rgba[4] = e[n]
                 /\ Len(fn.result.rgba) = 4
            ELSE fn.block.color \in DOMAIN remarkable_palette =>
                 /\ fn.result.ok
                 /\ fn.result.rgba = remarkable_palette[fn.block.color] \o <<255>>

\* raw metadata wins over the declared color, which is not in the palette
C14_Witness ==
    /\ fn.name = "get_color"
    /\ fn.block.color = "HIGHLIGHT"
    /\ fn.block.extra_data = <<0, 7, 255, 0, 255>>
    /\ fn.result.rgba = <<0, 255, 7, 255>>

\* four bytes are not enough: the palette entry of the declared color
C14_WitnessPalette ==
    /\ fn.name = "get_color"
    /\ fn.block.color = "BLUE"
    /\ fn.block.extra_data = <<7, 255, 0, 255>>
    /\ fn.result.rgba = <<78, 105, 201, 255>>

\* C15: color resolution is deterministic and fails closed: the result for
\* at least 5 raw bytes depends on those bytes alone, and a block with fewer
\* than 5 raw bytes whose declared color is not in the palette (the highlight
\* color) ends in the error outcome (KeyError), never in a color tuple.
C15_FailsClosed ==
    fn.name = "get_color" =>
        /\ \A color \in PenColors :
             (Len(fn.block.extra_data) >= 5 \/ color = fn.block.color) =>
                 /\ get_color(Glyph("Important", color, fn.block.extra_data, 0)) = fn.result
                 /\ get_color([fn.block EXCEPT !.color = color]) = fn.result
        /\ (Len(fn.block.extra_data) < 5 /\ fn.block.color \notin DOMAIN remarkable_palette)
              => (~fn.result.ok /\ fn.result.rgba = <<>>)
        /\ fn.result.ok =>
              (Len(fn.block.extra_data) >= 5 \/ fn.block.color \in DOMAIN remarkable_palette)

C15_Witness ==
    /\ fn.name = "get_color"
    /\ fn.block.color = "HIGHLIGHT"
    /\ Len(fn.block.extra_data) = 4
    /\ ~fn.result.ok

GridPoints == {Pt(x, y) : x \in {RZero, I2R(2)}, y \in {RZero, Rat(1, 2), I2R(3)}}
Thresholds == {Rat(1, 2), DefaultThreshold, I2R(1)}

CallIsRectangular ==
    /\ fn = NoFn
    /\ \E points \in SeqsUpTo(GridPoints, MaxPoints) \ {<<>>}, threshold \in Thresholds :
         LET block == Stroke(points, "BLACK", 0)
         IN  fn' = [name |-> "is_rectangular", block |-> block, threshold |-> threshold,
                    result |-> is_rectangular(block, threshold)]
    /\ UNCHANGED <<tin, tr, extractionVars, wr, fsys, un>>

\* the area of the polygon through pts as a fan of triangles from pts[1]:
\* twice the signed area is the sum of the cross products
RECURSIVE FanSum(_, _)
FanSum(pts, i) ==
    IF i >= Len(pts) THEN RZero
    ELSE LET ux == RSub(pts[i].x, pts[1].x)
             uy == RSub(pts[i].y, pts[1].y)
             vx == RSub(pts[i + 1].x, pts[1].x)
             vy == RSub(pts[i + 1].y, pts[1].y)
         IN  RAdd(RSub(RMul(ux, vy), RMul(uy, vx)), FanSum(pts, i + 1))

\* the area of the axis-aligned bounding box of pts
BoxArea(pts) ==
    LET I == 1..Len(pts)
        l == CHOOSE i \in I : \A j \in I : RLe(pts[i].x, pts[j].x)
        r == CHOOSE i \in I : \A j \in I : RLe(pts[j].x, pts[i].x)
        b == CHOOSE i \in I : \A j \in I : RLe(pts[i].y, pts[j].y)
        t == CHOOSE i \in I : \A j \in I : RLe(pts[j].y, pts[i].y)
    IN  RMul(RSub(pts[r].x, pts[l].x), RSub(pts[t].y, pts[b].y))

\* C16: is_rectangular(stroke, threshold) is true iff the stroke has at least
\* 4 points, the area of its bounding box is not zero and the area of its
\* polygon is at least threshold times the area of the box; so the perimeter
\* of an axis-aligned rectangle is accepted at threshold 0.8, and a shape of
\* zero area (fewer than 4 points, collinear points) is rejected.
C16_IsRectangular ==
    fn.name = "is_rectangular" =>
        LET pts == fn.block.points
            area == RAbs(FanSum(pts, 2))
            box == BoxArea(pts)
        IN  /\ fn.result <=> /\ Len(pts) >= 4
                             /\ box # RZero
                             /\ RLe(RMul(RMul(fn.threshold, box), I2R(2)), area)
            /\ (Len(pts) < 4 \/ area = RZero) => ~fn.result
            /\ (pts = <<Pt(RZero, RZero), Pt(I2R(2), RZero), Pt(I2R(2), I2R(3)),
                        Pt(RZero, I2R(3))>> /\ fn.threshold = Rat(4, 5)) => fn.result

C16_Witness ==
    /\ fn.name = "is_rectangular"
    /\ fn.block.points = <<Pt(RZero, RZero), Pt(I2R(2), RZero), Pt(I2R(2), I2R(3)),
                           Pt(RZero, I2R(3))>>
    /\ fn.threshold = Rat(4, 5)
    /\ fn.result

\* four collinear points that span a box are rejected
C16_WitnessCollinear ==
    /\ fn.name = "is_rectangular"
    /\ fn.block.points = <<Pt(RZero, RZero), Pt(I2R(2), I2R(3)), Pt(RZero, RZero),
                           Pt(I2R(2), I2R(3))>>
    /\ ~fn.result

(***************************************************************************)
(* The pens of utils/writing_tools.py.  A pen is the record of the fields  *)
(* that __post_init__ sets; cls names the class whose methods it has.      *)
(***************************************************************************)
PenTypes ==
    {"PAINTBRUSH_1", "PAINTBRUSH_2", "CALIGRAPHY", "MARKER_1", "MARKER_2",
     "BALLPOINT_1", "BALLPOINT_2", "FINELINER_1", "FINELINER_2", "PENCIL_1",
     "PENCIL_2", "MECHANICAL_PENCIL_1", "MECHANICAL_PENCIL_2", "HIGHLIGHTER_1",
     "HIGHLIGHTER_2", "SHADER", "ERASER_AREA", "ERASER"}

\* a tool id that no case of Pen.create names
UnknownPenType == "UNKNOWN"

\* the palette of writing_tools.py (it has no entry for HIGHLIGHT)
pen_palette ==
    [BLACK |-> <<0, 0, 0>>, GRAY |-> <<144, 144, 144>>, WHITE |-> <<255, 255, 255>>,
     YELLOW |-> <<251, 247, 25>>, GREEN |-> <<0, 255, 0>>, PINK |-> <<255, 192, 203>>,
     BLUE |-> <<78, 105, 201>>, RED |-> <<179, 62, 57>>,
     GRAY_OVERLAP |-> <<125, 125, 125>>, GREEN_2 |-> <<161, 216, 125>>,
     CYAN |-> <<139, 208, 229>>, MAGENTA |-> <<183, 130, 205>>,
     YELLOW_2 |-> <<247, 232, 81>>]

\* a color argument: an (r, g, b, a) tuple or the id of a PenColor
ColorTuple(rgba) == [tuple |-> TRUE, rgba |-> rgba, id |-> ""]
ColorId(id) == [tuple |-> FALSE, rgba |-> <<>>, id |-> id]

\* a pen whose construction raised
NoPen(e) == [ok |-> FALSE, exc |-> e]

\* Pen.__post_init__: the fields of every pen
Pen(cls, base_width, base_color_id) ==
    IF ~base_color_id.tuple /\ base_color_id.id \notin DOMAIN pen_palette
    THEN NoPen("AssertionError")
    ELSE LET base_color == IF base_color_id.tuple
                           THEN SubSeq(base_color_id.rgba, 1, 3)
                           ELSE pen_palette[base_color_id.id]
             stroke_opacity == IF base_color_id.tuple
                               THEN Rat(base_color_id.rgba[4], 255)
                               ELSE I2R(1)
         IN  [ok |-> TRUE, exc |-> "", cls |-> cls, base_color |-> base_color,
              stroke_opacity |-> stroke_opacity, segment_length |-> 1000,
              base_opacity |-> I2R(1), name |-> "Basic Pen",
              stroke_linecap |-> "round", stroke_width |-> base_width,
              stroke_color |-> base_color]

\* the __post_init__ of a subclass: the fields in over replace those of Pen
\* (base_width, which only get_segment_width reads, is not followed)
SubPen(cls, base_width, base_color_id, over) ==
    LET p == Pen(cls, base_width, base_color_id)
    IN  IF ~p.ok THEN p
        ELSE [f \in DOMAIN p |-> IF f \in DOMAIN over THEN over[f] ELSE p[f]]

Fineliner(w, c) == SubPen("Fineliner", w, c, [name |-> "Fineliner"])
Ballpoint(w, c) == SubPen("Ballpoint", w, c, [segment_length |-> 5, name |-> "Ballpoint"])
Marker(w, c) == SubPen("Marker", w, c, [segment_length |-> 3, name |-> "Marker"])
Pencil(w, c) == SubPen("Pencil", w, c, [segment_length |-> 2, name |-> "Pencil"])
Mechanical_Pencil(w, c) ==
    SubPen("Mechanical_Pencil", w, c,
           [base_opacity |-> Rat(7, 10), name |-> "Mechanical Pencil"])
Brush(w, c) ==
    SubPen("Brush", w, c,
           [segment_length |-> 2, stroke_linecap |-> "round", name |-> "Brush"])
Highlighter(w, c) ==
    SubPen("Highlighter", w, c,
           [stroke_linecap |-> "square", base_opacity |-> Rat(3, 10),
            name |-> "Highlighter"])
Shader(w, c) ==
    SubPen("Shader", w, c,
           [stroke_linecap |-> "round", base_opacity |-> Rat(1, 10), name |-> "Shader"])
Eraser(w, c) == SubPen("Eraser", w, c, [stroke_linecap |-> "square", name |-> "Eraser"])
Erase_Area(w, c) ==
    SubPen("Erase_Area", w, c,
           [stroke_linecap |-> "square", base_opacity |-> RZero, name |-> "Erase Area"])
Caligraphy(w, c) ==
    SubPen("Caligraphy", w, c, [segment_length |-> 2, name |-> "Calligraphy"])

\* Pen.create: the pen of a tool id
Pen_create(pen_nr, color_id, width) ==
    CASE pen_nr \in {"PAINTBRUSH_1", "PAINTBRUSH_2"} -> Brush(width, color_id)
      [] pen_nr = "CALIGRAPHY" -> Caligraphy(width, color_id)
      [] pen_nr \in {"MARKER_1", "MARKER_2"} -> Marker(width, color_id)
      [] pen_nr \in {"BALLPOINT_1", "BALLPOINT_2"} -> Ballpoint(width, color_id)
      [] pen_nr \in {"FINELINER_1", "FINELINER_2"} -> Fineliner(width, color_id)
      [] pen_nr \in {"PENCIL_1", "PENCIL_2"} -> Pencil(width, color_id)
      [] pen_nr \in {"MECHANICAL_PENCIL_1", "MECHANICAL_PENCIL_2"} ->
            Mechanical_Pencil(width, color_id)
      [] pen_nr \in {"HIGHLIGHTER_1", "HIGHLIGHTER_2"} -> Highlighter(I2R(25), color_id)
      [] pen_nr = "SHADER" -> Shader(I2R(12), color_id)
      [] pen_nr = "ERASER_AREA" -> Erase_Area(width, color_id)
      [] pen_nr = "ERASER" -> Eraser(width, ColorId("WHITE"))
      [] OTHER -> NoPen("Exception")

\* Pen.cutoff
cutoff(value) == RMax(RZero, RMin(I2R(1), value))

\* get_segment_opacity of the pen's class: Pencil overrides it, every other
\* class inherits Pen's
get_segment_opacity(pen, speed, pressure) ==
    IF pen.cls = "Pencil"
    THEN LET segment_opacity ==
                 RAdd(RMul(Rat(1, 10), RSub(RZero, RDiv(RDiv(speed, I2R(4)), I2R(35)))),
                      RDiv(pressure, I2R(255)))
         IN  RSub(cutoff(segment_opacity), Rat(1, 10))
    ELSE pen.base_opacity

PenColorArgs ==
    {ColorTuple(<<0, 0, 0, 255>>), ColorTuple(<<255, 0, 0, 128>>), ColorId("BLACK"),
     ColorId("HIGHLIGHT")}
CallGetSegmentOpacity ==
    /\ fn = NoFn
    /\ \E pen_nr \in PenTypes, speed \in {RZero, I2R(140), I2R(2800)},
          pressure \in {RZero, I2R(26), I2R(128), I2R(255)} :
         LET pen == Pen_create(pen_nr, ColorTuple(<<0, 0, 0, 255>>), I2R(2))
         IN  fn' = [name |-> "get_segment_opacity", pen |-> pen, speed |-> speed,
                    pressure |-> pressure,
                    result |-> get_segment_opacity(pen, speed, pressure)]
    /\ UNCHANGED <<tin, tr, extractionVars, wr, fsys, un>>

\* C17: get_segment_opacity returns a value in [0, 1] for every tool: the
\* constant base opacity for every tool but pencil and ballpoint, and for
\* pencil and ballpoint a value that depends on pressure and speed, clamped
\* to [0, 1], for every pressure in 0..255 and every speed >= 0.
C17_OpacityInUnitInterval ==
    fn.name = "get_segment_opacity" =>
        /\ RLe(RZero, fn.result) /\ RLe(fn.result, I2R(1))
        /\ fn.pen.cls \notin {"Pencil", "Ballpoint"} => fn.result = fn.pen.base_opacity

\* the part of C17 that the code keeps: the range of the tools with a
\* constant opacity, and the range [-1/10, 9/10] of the pencil
C17_ConstantTools ==
    fn.name = "get_segment_opacity" =>
        IF fn.pen.cls = "Pencil"
        THEN RLe(Rat(-1, 10), fn.result) /\ RLe(fn.result, Rat(9, 10))
        ELSE /\ fn.result = fn.pen.base_opacity
             /\ RLe(RZero, fn.result) /\ RLe(fn.result, I2R(1))

CallPenCreate ==
    /\ fn = NoFn
    /\ \E pen_nr \in PenTypes \cup {UnknownPenType}, color_id \in PenColorArgs,
          width \in {I2R(1), I2R(2)} :
         fn' = [name |-> "Pen.create", pen_nr |-> pen_nr, color_id |-> color_id,
                width |-> width, result |-> Pen_create(pen_nr, color_id, width)]
    /\ UNCHANGED <<tin, tr, extractionVars, wr, fsys, un>>

InkTools ==
    {"FINELINER_1", "FINELINER_2", "BALLPOINT_1", "BALLPOINT_2", "MARKER_1", "MARKER_2",
     "PENCIL_1", "PENCIL_2", "MECHANICAL_PENCIL_1", "MECHANICAL_PENCIL_2",
     "PAINTBRUSH_1", "PAINTBRUSH_2", "CALIGRAPHY"}
SquareTools == {"ERASER", "ERASER_AREA", "HIGHLIGHTER_1", "HIGHLIGHTER_2", "SHADER"}

\* C18: the pen that Pen.create returns has stroke_linecap "round" for every
\* ink tool (fineliner, ballpoint, marker, pencil, mechanical pencil, brush,
\* calligraphy) and "square" for every eraser, erase-area, highlighter and
\* shader tool id.
C18_Linecap ==
    (fn.name = "Pen.create" /\ fn.result.ok) =>
        /\ fn.pen_nr \in InkTools => fn.result.stroke_linecap = "round"
        /\ fn.pen_nr \in SquareTools => fn.result.stroke_linecap = "square"

\* the part of C18 that the code keeps: every tool id but SHADER
C18_LinecapButShader ==
    (fn.name = "Pen.create" /\ fn.result.ok) =>
        /\ fn.pen_nr \in InkTools \cup {"SHADER"} => fn.result.stroke_linecap = "round"
        /\ fn.pen_nr \in SquareTools \ {"SHADER"} => fn.result.stroke_linecap = "square"

(***************************************************************************)
(* draw_stroke of svg.py.  A point of a stroke is the record of its x, y,  *)
(* speed and pressure; direction and width, which only get_segment_width   *)
(* reads, and the stroke-width attribute are not followed.  The result is  *)
(* the sequence of the polyline elements of the returned text.             *)
(***************************************************************************)
MaxStrokePoints == 6    \* points of a stroke handed to draw_stroke

\* q ** 1.5 for a rational q whose numerator and denominator are squares
Pow3Halves(q) ==
    LET a == CHOOSE r \in 0..q[1] : r * r = q[1]
        b == CHOOSE r \in 0..q[2] : r * r = q[2]
    IN  Rat(a * a * a, b * b * b)

\* get_segment_color of the pen's class, as the (r, g, b) of the returned
\* "rgb(r, g, b)": Ballpoint and Brush override it
get_segment_color(pen, speed, pressure) ==
    CASE pen.cls = "Ballpoint" ->
            LET intensity ==
                    cutoff(RAdd(RAdd(RMul(Rat(1, 10),
                                          RSub(RZero, RDiv(RDiv(speed, I2R(4)), I2R(35)))),
                                     RDiv(RMul(Rat(12, 10), pressure), I2R(255))),
                                Rat(1, 2)))
                v == Floor(RMul(RAbs(RSub(intensity, I2R(1))), I2R(255)))
            IN  <<v, v, v>>
      [] pen.cls = "Brush" ->
            LET intensity ==
                    cutoff(RMul(RSub(Pow3Halves(RDiv(pressure, I2R(255))),
                                     RMul(Rat(2, 10), RDiv(RDiv(speed, I2R(4)), I2R(50)))),
                                Rat(15, 10)))
                rev_intensity == RAbs(RSub(intensity, I2R(1)))
            IN  [i \in 1..3 |->
                    Floor(RMul(rev_intensity, I2R(255 - pen.base_color[i])))]
      [] OTHER -> pen.base_color

\* f"{v:.3f}": v rounded to three decimals
Format3(p) ==
    LET q == RMul(p, I2R(1000))
        f == Floor(q)
        r == RSub(q, I2R(f))
        up == \/ RLt(Rat(1, 2), r)
              \/ (r = Rat(1, 2) /\ f % 2 = 1)
    IN  Rat(IF up THEN f + 1 ELSE f, 1000)

SvgDocInfo(height, width, xpos_delta, ypos_delta) ==
    [height |-> height, width |-> width, xpos_delta |-> xpos_delta,
     ypos_delta |-> ypos_delta]

StrokePoint(x, y, speed, pressure) ==
    [x |-> x, y |-> y, speed |-> speed, pressure |-> pressure]

\* a SceneLineItemBlock as draw_stroke reads it
LineItem(has_value, tool, thickness_scale, points) ==
    [has_value |-> has_value, tool |-> tool, thickness_scale |-> thickness_scale,
     points |-> points]

Polyline(stroke, opacity, stroke_linecap, points) ==
    [stroke |-> stroke, opacity |-> opacity, stroke_linecap |-> stroke_linecap,
     points |-> points]

\* the loop over the points from point_id on; last is (last_xpos, last_ypos)
RECURSIVE DrawPoints(_, _, _, _, _, _)
DrawPoints(pen, points, svg_doc_info, point_id, last, paths) ==
    IF point_id >= Len(points)
    THEN [ok |-> TRUE, none |-> FALSE, exc |-> "", paths |-> paths]
    ELSE LET point == points[point_id + 1]
             xpos == RAdd(point.x, svg_doc_info.xpos_delta)
             ypos == RAdd(point.y, svg_doc_info.ypos_delta)
             inside == /\ RLe(RZero, xpos) /\ RLe(xpos, svg_doc_info.width)
                       /\ RLe(RZero, ypos) /\ RLe(ypos, svg_doc_info.height)
             segment_opacity == get_segment_opacity(pen, point.speed, point.pressure)
             opened ==
                 IF point_id % pen.segment_length = 0
                 THEN Append(paths,
                        Polyline(pen.stroke_color, segment_opacity, pen.stroke_linecap,
                                 IF last[1] # I2R(-1)
                                 THEN << <<Format3(last[1]), Format3(last[2])>> >>
                                 ELSE <<>>))
                 ELSE paths
         IN  IF ~inside
             THEN [ok |-> FALSE, none |-> FALSE, exc |-> "AssertionError", paths |-> <<>>]
             ELSE DrawPoints(pen, points, svg_doc_info, point_id + 1, <<xpos, ypos>>,
                             [opened EXCEPT ![Len(opened)].points =
                                 Append(@, <<Format3(xpos), Format3(ypos)>>)])

draw_stroke(block, svg_doc_info, color) ==
    IF ~block.has_value
    THEN [ok |-> TRUE, none |-> TRUE, exc |-> "", paths |-> <<>>]
    ELSE LET pen == Pen_create(block.tool, ColorTuple(color), block.thickness_scale)
         IN  IF ~pen.ok
             THEN [ok |-> FALSE, none |-> FALSE, exc |-> pen.exc, paths |-> <<>>]
             ELSE DrawPoints(pen, block.points, svg_doc_info, 0, <<I2R(-1), I2R(-1)>>,
                             <<Polyline(pen.stroke_color, pen.stroke_opacity,
                                        pen.stroke_linecap, <<>>)>>)

StrokePoints ==
    {StrokePoint(RZero, RZero, RZero, RZero),
     StrokePoint(I2R(2), Rat(5, 2), I2R(140), I2R(255)),
     StrokePoint(I2R(12), I2R(1), RZero, I2R(255))}
PageInfo == SvgDocInfo(I2R(10), I2R(10), Rat(1, 3), Rat(1, 4))

CallDrawStroke ==
    /\ fn = NoFn
    /\ \E tool \in PenTypes \cup {UnknownPenType},
          color \in {<<0, 0, 0, 255>>, <<255, 0, 0, 128>>},
          points \in SeqsUpTo(StrokePoints, MaxStrokePoints), has_value \in BOOLEAN :
         /\ ~has_value => (points = <<>> /\ tool = "BALLPOINT_1")
         /\ LET block == LineItem(has_value, tool, I2R(2), points)
            IN  fn' = [name |-> "draw_stroke", block |-> block, color |-> color,
                       pen |-> Pen_create(tool, ColorTuple(color), I2R(2)),
                       result |-> draw_stroke(block, PageInfo, color)]
    /\ UNCHANGED <<tin, tr, extractionVars, wr, fsys, un>>

\* the stroke of a draw_stroke call was rendered
Rendered ==
    /\ fn.name = "draw_stroke"
    /\ fn.result.ok
    /\ ~fn.result.none

\* the point that starts segment j of the stroke (j from 1)
SegmentStart(j) == fn.block.points[(j - 1) * fn.pen.segment_length + 1]

\* the segments of a stroke of n points: ceil(n / L)
SegmentCount == Ceil(Rat(Len(fn.block.points), fn.pen.segment_length))[1]

\* C19: for ballpoint and brush strokes the color of every rendered segment
\* is the value that get_segment_color computes from the pressure and speed
\* of that segment; for every other tool every segment has the pen's literal
\* color.
C19_SegmentColor ==
    Rendered =>
        \A j \in 1..SegmentCount :
            /\ j + 1 <= Len(fn.result.paths)
            /\ fn.result.paths[j + 1].stroke =
                   IF fn.pen.cls \in {"Ballpoint", "Brush"}
                   THEN get_segment_color(fn.pen, SegmentStart(j).speed,
                                          SegmentStart(j).pressure)
                   ELSE fn.pen.base_color

\* what the code does instead: every polyline has the pen's literal color
C19_LiteralColor ==
    Rendered => \A j \in 1..Len(fn.result.paths) :
                    fn.result.paths[j].stroke = fn.pen.base_color

\* point i of the stroke as draw_stroke writes it
Written(i) ==
    <<Format3(RAdd(fn.block.points[i].x, PageInfo.xpos_delta)),
      Format3(RAdd(fn.block.points[i].y, PageInfo.ypos_delta))>>

\* the points of segment j: the last point of segment j - 1, carried
\* forward, and then the points (j - 1) * L + 1 .. j * L of the stroke
SegmentPoints(j) ==
    LET L == fn.pen.segment_length
        n == Len(fn.block.points)
        first == (j - 1) * L + 1
        last == IF j * L < n THEN j * L ELSE n
    IN  (IF j > 1 THEN <<Written(first - 1)>> ELSE <<>>)
        \o [i \in 1..(last - first + 1) |-> Written(first + i - 1)]

\* C20: for a stroke of n >= 1 points and a pen of segment length L,
\* draw_stroke emits one path per segment, ceil(n / L) paths in total; every
\* point appears exactly once as a non-carried point, in the original order,
\* and each path after the first starts with the last point of the path
\* before it.
C20_OnePathPerSegment ==
    (Rendered /\ Len(fn.block.points) >= 1) =>
        /\ Len(fn.result.paths) = SegmentCount
        /\ \A j \in 1..Len(fn.result.paths) : fn.result.paths[j].points = SegmentPoints(j)

\* what the code does instead: the ceil(n / L) paths of the segments follow
\* one path without points
C20_SegmentsAfterEmptyPath ==
    (Rendered /\ Len(fn.block.points) >= 1) =>
        /\ Len(fn.result.paths) = SegmentCount + 1
        /\ fn.result.paths[1].points = <<>>
        /\ \A j \in 1..SegmentCount : fn.result.paths[j + 1].points = SegmentPoints(j)

\* a ballpoint stroke of more points than one segment holds was rendered
C20_TwoSegments ==
    /\ Rendered
    /\ fn.pen.cls = "Ballpoint"
    /\ Len(fn.block.points) = 6
    /\ Len(fn.result.paths) = 3
    /\ Len(fn.result.paths[3].points) = 2

NextF ==
    \/ CallGetColor
    \/ CallIsRectangular
    \/ CallGetSegmentOpacity
    \/ CallPenCreate
    \/ CallDrawStroke

SpecF == InitF /\ [][NextF]_vars

====
